---------------------------- MODULE Spec2Model ----------------------------
(***************************************************************************)
(* Separation-node community detection (qcd).                              *)
(*                                                                         *)
(* The module models these components of the repository as state machines: *)
(*   - graphs.find_constraint_violations          (SpecValidator)          *)
(*   - neighborhoodConnectivity.greedy_separation_node_classification      *)
(*                                                 (SpecGreedy)            *)
(*   - neighborhoodConnectivity.bfs / neighborhood_connectivity (SpecBfs)  *)
(*   - neighborhoodConnectivity.simulated_annealing           (SpecSA)     *)
(*   - graphs.create_lfr_graph                        (SpecLfr)            *)
(*   - graphs.find_separation_node_set                (SpecSeparator)      *)
(*                                                                         *)
(* A graph is a node count n (node ids 0..n-1) and a set of undirected     *)
(* edges, each edge a two-element set of nodes.  Half-integer layer depths *)
(* of the breadth-first search are stored doubled (key 2k for depth k).    *)
(***************************************************************************)
EXTENDS Integers, Sequences, FiniteSets, TLC

VARIABLES
    \* the graph handed to the component under analysis
    nNodes,             \* G.number_of_nodes(); the nodes are 0..nNodes-1
    edges,              \* G.edges(), as a set of two-element sets
    block,              \* node attribute "block" (ground-truth community id)
    \* graphs.find_constraint_violations
    x,                  \* the classification passed in (0 = separation node)
    viols,              \* the returned triple, <<>> before the call returns
    vpc,                \* "idle", "call" or "done"
    \* neighborhoodConnectivity.greedy_separation_node_classification
    classification,     \* the caller's dict node -> {0,1}; the function mutates it
    classification_at_call,         \* history: the dict as it was when the call was made
    H_at_call,          \* history: the edges of H when the call was made
    communities,        \* dict community index -> node set
    separation_node_set,            \* list of the still unassigned separation nodes
    initial_separation_node_set,    \* copy of that list taken before the loop
    connection_summary, \* dict node -> dict community index -> count
    most_certain_node,
    most_certain_community,
    most_certain_node_connectedness,
    loop_a,             \* the loop variable a of the assignment loop
    gpc,                \* "idle", "call", "loop", "returned", "KeyError", "ValueError"
    \* neighborhoodConnectivity.bfs and neighborhood_connectivity
    bfs_v, bfs_w,       \* the arguments v and w
    bfs_d,              \* the argument d
    bfs_d_type,         \* its Python type: "int" or "float"
    edges_at_call,      \* history: G.edges() when bfs was called
    node_layer_depth,   \* dict node -> depth, -1 if not explored
    nodes_in_layers,    \* dict depth -> node set
    edges_in_layers,    \* dict doubled depth -> set of pairs <<node, neighbor>>
    edge_layer_depth,   \* dict pair -> doubled depth, -1 if not explored
    sub_tree_root,      \* dict node -> {} (None), {v}, {w} or {v, w}
    layer_i,            \* the loop variable i of "for i in range(0, d)"
    todo_nodes,         \* nodes of layer i the inner loop has not yet taken
    nc_a,               \* the damping argument a as <<numerator, denominator>>
    nc,                 \* the returned score as <<numerator, denominator>>
    bpc,                \* "idle", "call", "loop", "returned", "scored" or an error name
    \* neighborhoodConnectivity.simulated_annealing
    warmstart,          \* the argument: <<>> for None, else a bit per node
    n_iterations,       \* the argument
    temp,               \* the argument as <<numerator, denominator>>
    curr, curr_eval, curr_sep_set_viols, curr_inj_viols, curr_sur_viols,
    best, best_eval, best_sep_set_viols, best_sur_viols, best_inj_viols,
    candidate, candidate_eval, cand_sep_set_viols, cand_inj_viols, cand_sur_viols,
    sa_i,               \* iterations completed (the loop variable i of the next one)
    sapc,               \* "idle", "call", "loop", "returned" or "OverflowError"
    \* graphs.create_lfr_graph
    lfr_diff,           \* the argument diff
    lfr_filename,       \* the argument filename: "None" or "seedfile"
    lfr_G,              \* the local G: "None", "connected" or "disconnected"
    lfr_connected,      \* the local connected
    lfr_seed,           \* the local seed, 0 for None
    lfr_i,              \* the local i, the number of tries
    lfr_file,           \* the seeds appended to the file called filename
    lfrpc,              \* "idle", "call", "loop" or "returned"
    \* graphs.find_separation_node_set
    solution,           \* what neighborhoodConnectivity.solve returned
    identified_nodes,   \* the nodes the solution gives the value 0
    separation_node,    \* the node attribute separation_node of G
    fs_result,          \* the returned set
    fspc,               \* "idle", "call" or "returned"
    \* neighborhoodConnectivity.calculate_qubo_nc
    estimations,        \* the argument: dict pair <<i, j>> -> score <<num, den>>
    Q,                  \* the returned matrix, entries <<num, den>>, <<>> before
    qpc                 \* "idle", "call" or "done"

graphVars  == <<nNodes, edges, block>>
valVars    == <<x, viols, vpc>>
greedyVars == <<classification, classification_at_call, H_at_call, communities,
                separation_node_set,
                initial_separation_node_set, connection_summary, most_certain_node,
                most_certain_community, most_certain_node_connectedness, loop_a, gpc>>
bfsVars    == <<bfs_v, bfs_w, bfs_d, bfs_d_type, edges_at_call, node_layer_depth,
                nodes_in_layers, edges_in_layers, edge_layer_depth, sub_tree_root,
                layer_i, todo_nodes, nc_a, nc, bpc>>
saVars     == <<warmstart, n_iterations, temp,
                curr, curr_eval, curr_sep_set_viols, curr_inj_viols, curr_sur_viols,
                best, best_eval, best_sep_set_viols, best_sur_viols, best_inj_viols,
                candidate, candidate_eval, cand_sep_set_viols, cand_inj_viols,
                cand_sur_viols, sa_i, sapc>>
lfrVars    == <<lfr_diff, lfr_filename, lfr_G, lfr_connected, lfr_seed, lfr_i, lfr_file, lfrpc>>
fsVars     == <<solution, identified_nodes, separation_node, fs_result, fspc>>
quboVars   == <<estimations, Q, qpc>>
vars       == <<graphVars, valVars, greedyVars, bfsVars, saVars, lfrVars, fsVars, quboVars>>

-----------------------------------------------------------------------------
(* Bounds of the explored input space.                                     *)

ValNodes == 3           \* nodes of the graphs given to the validator exhaustively
ValBlocks == 2          \* distinct ground-truth block ids
GreedyNodes == 4        \* nodes of the graphs given to the greedy assigner
BfsNodes == 4           \* nodes of the graphs explored exhaustively by bfs
MaxDepth == 2           \* largest depth argument d given to bfs
SANodes == 2            \* nodes of the graphs given to simulated_annealing
SABlocks == 2           \* distinct ground-truth block ids of those graphs
MaxIterations == 3      \* largest n_iterations given to simulated_annealing
MaxTries == 3           \* tries of create_lfr_graph that are counted in i
NumSeeds == 2           \* distinct values create_random_seed can return
FsNodes == 3            \* nodes of the graphs given to find_separation_node_set
FsBlocks == 2           \* distinct ground-truth communities of those graphs
QuboNodes == 3          \* nodes of the graphs given to calculate_qubo_nc

-----------------------------------------------------------------------------
(* Graph helpers (the networkx operations the code relies on).             *)

NodeSet(n) == 0 .. (n - 1)

AllEdges(n) == {{i, j} : i \in NodeSet(n), j \in NodeSet(n)} \ {{i} : i \in NodeSet(n)}

Neighbors(E, i) == {j \in UNION E : {i, j} \in E /\ j # i}

Degree(E, i) == Cardinality(Neighbors(E, i))

\* G.subgraph / remove_nodes_from: the edges with both ends in V
InducedEdges(V, E) == {e \in E : e \subseteq V}

RECURSIVE Reach(_, _)
Reach(S, E) ==
    LET T == S \cup UNION {e \in E : e \cap S # {}}
    IN  IF T = S THEN S ELSE Reach(T, E)

\* nx.connected_components of the graph with nodes V and edges E restricted to V
ConnectedComponents(V, E) == {Reach({u}, InducedEdges(V, E)) : u \in V}

RECURSIVE SumFn(_)
SumFn(f) ==
    IF DOMAIN f = {} THEN 0
    ELSE LET k == CHOOSE k \in DOMAIN f : TRUE
         IN  f[k] + SumFn([j \in DOMAIN f \ {k} |-> f[j]])

MaxFn(f) == CHOOSE m \in {f[k] : k \in DOMAIN f} : \A k \in DOMAIN f : f[k] <= m

-----------------------------------------------------------------------------
(* graphs.find_constraint_violations                                       *)

\* gt_communities: one node set per block id that occurs
GtCommunities(n, blk) == {{i \in NodeSet(n) : blk[i] = com} : com \in {blk[i] : i \in NodeSet(n)}}

\* the residual components: G minus the nodes with x[i] = 0
ResidualComponents(n, E, xx) ==
    ConnectedComponents({i \in NodeSet(n) : xx[i] # 0}, E)

\* intersection_sizes.sort(); intersection_sizes.pop(); sum(intersection_sizes),
\* done only when the list has more than one entry.  sizes maps the entries
\* of the list (keyed by what produced them) to their values.
\* (variant: the list is trimmed only when it has more than two entries)
AllButLargest_MoreThanTwo(sizes) ==
    IF Cardinality(DOMAIN sizes) > 2 THEN SumFn(sizes) - MaxFn(sizes) ELSE 0

AllButLargest(sizes) ==
    IF Cardinality(DOMAIN sizes) > 1 THEN SumFn(sizes) - MaxFn(sizes) ELSE 0

\* (variant: the size of the whole component is appended, as the second
\* loop does, instead of the size of the intersection)
SeparationSetViolations_WholeComponent(comps, coms) ==
    SumFn([cc \in comps |->
        LET hit == {com \in coms : Cardinality(cc \cap com) > 0}
        IN  AllButLargest([com \in hit |-> Cardinality(cc)])])

SeparationSetViolations(comps, coms) ==
    SumFn([cc \in comps |->
        LET hit == {com \in coms : Cardinality(cc \cap com) > 0}
        IN  AllButLargest([com \in hit |-> Cardinality(cc \cap com)])])

\* (variant: the size of the intersection is appended, as the first loop
\* does, instead of the size of the whole component)
InjectivityViolations_IntersectionSizes(comps, coms) ==
    SumFn([com \in coms |->
        LET hit == {cc \in comps : Cardinality(com \cap cc) > 0}
        IN  AllButLargest([cc \in hit |-> Cardinality(com \cap cc)])])

InjectivityViolations(comps, coms) ==
    SumFn([com \in coms |->
        LET hit == {cc \in comps : Cardinality(com \cap cc) > 0}
        IN  AllButLargest([cc \in hit |-> Cardinality(cc)])])

SurjectivityViolations(comps, coms) ==
    Cardinality({com \in coms : {cc \in comps : Cardinality(com \cap cc) > 0} = {}})

find_constraint_violations(n, E, blk, xx) ==
    LET comps == ResidualComponents(n, E, xx)
        coms  == GtCommunities(n, blk)
    IN  << SeparationSetViolations(comps, coms),
           InjectivityViolations(comps, coms),
           SurjectivityViolations(comps, coms) >>

\* The "block" attributes a graph can carry, up to renaming of the block ids
\* (the code compares block ids only for equality): node 0 is in block 0 and
\* a block id occurs only after every smaller id has occurred.
BlockLabelings(n, k) ==
    {b \in [NodeSet(n) -> 0 .. (k - 1)] :
        \A i \in NodeSet(n) : b[i] = 0 \/ \E j \in 0 .. (i - 1) : b[j] = b[i] - 1}

GreedyIdle ==
    /\ classification = <<>> /\ classification_at_call = <<>> /\ H_at_call = {}
    /\ communities = <<>>
    /\ separation_node_set = <<>> /\ initial_separation_node_set = <<>>
    /\ connection_summary = <<>>
    /\ most_certain_node = 0 /\ most_certain_community = 0
    /\ most_certain_node_connectedness = -1
    /\ loop_a = 0 /\ gpc = "idle"

SALocalsUnset ==
    /\ curr = <<>> /\ curr_eval = 0
    /\ curr_sep_set_viols = 0 /\ curr_inj_viols = 0 /\ curr_sur_viols = 0
    /\ best = <<>> /\ best_eval = 0
    /\ best_sep_set_viols = 0 /\ best_sur_viols = 0 /\ best_inj_viols = 0
    /\ candidate = <<>> /\ candidate_eval = 0
    /\ cand_sep_set_viols = 0 /\ cand_inj_viols = 0 /\ cand_sur_viols = 0
    /\ sa_i = 0

SAIdle ==
    /\ warmstart = <<>> /\ n_iterations = 0 /\ temp = <<1, 1>>
    /\ SALocalsUnset
    /\ sapc = "idle"

BfsIdle ==
    /\ bfs_v = 0 /\ bfs_w = 0 /\ bfs_d = 0 /\ bfs_d_type = "int"
    /\ edges_at_call = {}
    /\ node_layer_depth = <<>> /\ nodes_in_layers = <<>> /\ edges_in_layers = <<>>
    /\ edge_layer_depth = <<>> /\ sub_tree_root = <<>>
    /\ layer_i = 0 /\ todo_nodes = {}
    /\ nc_a = <<0, 1>> /\ nc = <<0, 1>>
    /\ bpc = "idle"

ValIdle == x = <<>> /\ viols = <<>> /\ vpc = "idle"

LfrIdle ==
    /\ lfr_diff = "" /\ lfr_filename = "None" /\ lfr_G = "None" /\ lfr_connected = FALSE
    /\ lfr_seed = 0 /\ lfr_i = 0 /\ lfr_file = <<>> /\ lfrpc = "idle"

FsIdle ==
    /\ solution = <<>> /\ identified_nodes = {} /\ separation_node = <<>>
    /\ fs_result = {} /\ fspc = "idle"

\* the components that are not running
QuboIdle == estimations = <<>> /\ Q = <<>> /\ qpc = "idle"

OthersIdle == LfrIdle /\ FsIdle /\ QuboIdle

\* the path 0-1-2-3
PathGraph == {{0, 1}, {1, 2}, {2, 3}}

\* The graphs given to the validator: every graph on ValNodes nodes, and the
\* path 0-1-2-3 with every subset of its edges.
ValGraphs ==
    {<<ValNodes, E>> : E \in SUBSET AllEdges(ValNodes)}
        \cup {<<4, E>> : E \in SUBSET PathGraph}

ValInit ==
    /\ \E gr \in ValGraphs : nNodes = gr[1] /\ edges = gr[2]
    /\ block \in BlockLabelings(nNodes, ValBlocks)
    /\ x \in [NodeSet(nNodes) -> {0, 1}]
    /\ viols = <<>>
    /\ vpc = "call"

\* lines 425-427: the separation nodes are removed from H, a deep copy of G;
\* these are the edges G has afterwards
\* (variant: H is G itself, H = G)
EdgesOfGAfterRemoval_NoCopy(n, E, xx) ==
    InducedEdges({i \in NodeSet(n) : xx[i] # 0}, E)

EdgesOfGAfterRemoval(n, E, xx) == E

\* The lists of the two loops, in the order the sets are iterated.
RECURSIVE Orderings(_)
Orderings(S) ==
    IF S = {} THEN {<<>>}
    ELSE UNION {{<<e>> \o o : o \in Orderings(S \ {e})} : e \in S}

RECURSIVE SumSeq(_)
SumSeq(s) == IF s = <<>> THEN 0 ELSE Head(s) + SumSeq(Tail(s))

Positive(k) == k > 0

\* lines 445-449 and 465-468: intersection_sizes.sort(); .pop(); sum(...)
SortPopSum(sizes) ==
    IF Len(sizes) > 1
    THEN LET sorted == SortSeq(sizes, <)
         IN  SumSeq(SubSeq(sorted, 1, Len(sorted) - 1))
    ELSE 0

\* lines 438-449 with gt_communities in the order comOrder
SeparationLoop(comps, comOrder) ==
    SumFn([cc \in comps |->
        SortPopSum(SelectSeq([k \in 1 .. Len(comOrder) |->
                                 Cardinality(cc \cap comOrder[k])], Positive))])

\* lines 455-468 with connected_components in the order ccOrder
BijectivityLoop(ccOrder, coms) ==
    LET sizes(com) ==
            LET hits == SelectSeq(ccOrder, LAMBDA cc : Cardinality(com \cap cc) > 0)
            IN  [k \in 1 .. Len(hits) |-> Cardinality(hits[k])]
    IN  << SumFn([com \in coms |-> SortPopSum(sizes(com))]),
           Cardinality({com \in coms : Len(sizes(com)) = 0}) >>

\* the triples a call can return, over the orders in which the set of block
\* ids (line 431) and the components (line 428) are iterated
TripleOutcomes(n, E, blk, xx) ==
    LET comps == ResidualComponents(n, E, xx)
        coms  == GtCommunities(n, blk)
    IN  {<<SeparationLoop(comps, comOrder),
           BijectivityLoop(ccOrder, coms)[1],
           BijectivityLoop(ccOrder, coms)[2]>> :
            comOrder \in Orderings(coms), ccOrder \in Orderings(comps)}

FindConstraintViolations ==
    /\ vpc = "call"
    /\ edges' = EdgesOfGAfterRemoval(nNodes, edges, x)
    /\ viols' = find_constraint_violations(nNodes, edges, block, x)
    /\ vpc' = "done"
    /\ UNCHANGED <<quboVars, lfrVars, fsVars, nNodes, block, x, greedyVars, bfsVars, saVars>>

InitValidator == ValInit /\ GreedyIdle /\ BfsIdle /\ SAIdle /\ OthersIdle
NextValidator == FindConstraintViolations
SpecValidator == InitValidator /\ [][NextValidator]_vars

-----------------------------------------------------------------------------
(* neighborhoodConnectivity.greedy_separation_node_classification          *)

Range(seq) == {seq[p] : p \in DOMAIN seq}

\* the elements of a finite set of integers as a list in ascending order
\* (H.nodes() lists the node ids 0..n-1 in the order they were added)
RECURSIVE SortedSeq(_)
SortedSeq(S) ==
    IF S = {} THEN <<>>
    ELSE LET m == CHOOSE m \in S : \A u \in S : m <= u
         IN  <<m>> \o SortedSeq(S \ {m})

\* list.remove(val): drops the first occurrence of val
RemoveFirst(seq, val) ==
    LET p == CHOOSE p \in DOMAIN seq : seq[p] = val /\ \A q \in 1 .. (p - 1) : seq[q] # val
    IN  SubSeq(seq, 1, p - 1) \o SubSeq(seq, p + 1, Len(seq))

\* G: the subgraph of H induced by the nodes classified 1
NonSeparationNodes(n, cls) == {i \in NodeSet(n) : cls[i] = 1}

\* isolated_nodes: the nodes of G with degree 0 in G
IsolatedNodes(n, E, cls) ==
    LET V == NonSeparationNodes(n, cls)
    IN  {i \in V : Degree(InducedEdges(V, E), i) = 0}

\* (variant: G is H itself, so the isolated nodes are removed from H with
\* their edges)
EdgesOfHAfterRemoval_RemovedFromH(n, E, cls) ==
    {e \in E : e \cap IsolatedNodes(n, E, cls) = {}}

\* lines 285-289: G is a copy of the induced subgraph, so
\* G.remove_nodes_from(isolated_nodes) leaves the edges of H as they are
EdgesOfHAfterRemoval(n, E, cls) == E

\* (variant: the isolated nodes keep their classification)
Reclassified_Skipped(n, E, cls) == cls

\* for i in isolated_nodes: classification[i] = 0
Reclassified(n, E, cls) ==
    [i \in NodeSet(n) |-> IF i \in IsolatedNodes(n, E, cls) THEN 0 ELSE cls[i]]

\* communities = {i: set(c) for i, c in enumerate(nx.connected_components(G))}
\* after G.remove_nodes_from(isolated_nodes); components are listed in the
\* order of their first node
\* (variant: the isolated nodes are left in G)
InitialCommunities_IsolatedKept(n, E, cls) ==
    LET V     == NonSeparationNodes(n, cls)
        comps == ConnectedComponents(V, E)
        Min(c) == CHOOSE m \in c : \A u \in c : m <= u
        order == SortedSeq({Min(c) : c \in comps})
    IN  [k \in 0 .. (Len(order) - 1) |-> CHOOSE c \in comps : Min(c) = order[k + 1]]

InitialCommunities(n, E, cls) ==
    LET V     == NonSeparationNodes(n, cls) \ IsolatedNodes(n, E, cls)
        comps == ConnectedComponents(V, E)
        Min(c) == CHOOSE m \in c : \A u \in c : m <= u
        order == SortedSeq({Min(c) : c \in comps})
    IN  [k \in 0 .. (Len(order) - 1) |-> CHOOSE c \in comps : Min(c) = order[k + 1]]

\* (variant: the pass runs over initial_separation_node_set, the nodes
\* already assigned included)
ScanOutcomes_InitialList(E, cs, sepList, comms, prevNode, prevCom) ==
    LET all == SortedSeq(DOMAIN cs)
        inc(i, k) == Cardinality(Neighbors(E, i) \cap comms[k])
        newcs == [i \in DOMAIN cs |-> [k \in DOMAIN cs[i] |-> cs[i][k] + inc(i, k)]]
        touched == {t \in Range(all) \X DOMAIN comms : inc(t[1], t[2]) > 0}
    IN  IF touched = {}
        THEN {[cs |-> newcs, node |-> prevNode, com |-> prevCom, conn |-> -1]}
        ELSE LET M == CHOOSE m \in {newcs[t[1]][t[2]] : t \in touched} :
                          \A t \in touched : newcs[t[1]][t[2]] <= m
                 top == {t \in touched : newcs[t[1]][t[2]] = M}
                 p == CHOOSE p \in DOMAIN all :
                          /\ \E t \in top : t[1] = all[p]
                          /\ \A q \in 1 .. (p - 1) : \A t \in top : t[1] # all[q]
             IN  {[cs |-> newcs, node |-> t[1], com |-> t[2], conn |-> M] :
                      t \in {t \in top : t[1] = all[p]}}

\* One pass of the triple loop "for i in separation_node_set: for j in
\* H.neighbors(i): for k, c in communities.items(): if j in c: ..." started
\* with most_certain_node_connectedness = -1.  Every count is incremented once
\* per neighbour inside the community, on top of the value it already has.
\* The running maximum is replaced only by a strictly larger count, so the
\* pass ends on the pair that is first to reach the largest count; the order
\* of H.neighbors(i) decides among the communities of one node, and the model
\* leaves that order open.  A pass that increments nothing leaves
\* most_certain_node and most_certain_community as they were.
ScanOutcomes(E, cs, sepList, comms, prevNode, prevCom) ==
    LET inc(i, k) == Cardinality(Neighbors(E, i) \cap comms[k])
        newcs == [i \in DOMAIN cs |->
                    IF i \in Range(sepList)
                    THEN [k \in DOMAIN cs[i] |-> cs[i][k] + inc(i, k)]
                    ELSE cs[i]]
        touched == {t \in Range(sepList) \X DOMAIN comms : inc(t[1], t[2]) > 0}
    IN  IF touched = {}
        THEN {[cs |-> newcs, node |-> prevNode, com |-> prevCom, conn |-> -1]}
        ELSE LET M == CHOOSE m \in {newcs[t[1]][t[2]] : t \in touched} :
                          \A t \in touched : newcs[t[1]][t[2]] <= m
                 top == {t \in touched : newcs[t[1]][t[2]] = M}
                 p == CHOOSE p \in DOMAIN sepList :
                          /\ \E t \in top : t[1] = sepList[p]
                          /\ \A q \in 1 .. (p - 1) : \A t \in top : t[1] # sepList[q]
             IN  {[cs |-> newcs, node |-> t[1], com |-> t[2], conn |-> M] :
                      t \in {t \in top : t[1] = sepList[p]}}

\* Graphs on six nodes with the edges 2-3 and 4-5 and any edges at the nodes
\* 0 and 1: two communities and up to two nodes between them.
TwoCommunityGraphs ==
    {{{2, 3}, {4, 5}} \cup B : B \in SUBSET {e \in AllEdges(6) : e \cap {0, 1} # {}}}

\* Graphs on six nodes with the edge 4-5 and any edges at the nodes 0..3:
\* one community and four nodes to assign to it one after the other.
OneCommunityGraphs ==
    {{{4, 5}} \cup B : B \in SUBSET {e \in AllEdges(6) : e # {4, 5}}}

\* The graphs H and classifications given to the assigner: every graph on
\* GreedyNodes nodes with every classification, the two-community graphs
\* with the nodes 2..5 classified 1, and the one-community graphs with the
\* nodes 0..3 classified 0 and the nodes 4, 5 classified 1.
GreedyInputs ==
    {[n |-> GreedyNodes, E |-> e, cls |-> c] :
        e \in SUBSET AllEdges(GreedyNodes), c \in [NodeSet(GreedyNodes) -> {0, 1}]}
    \cup
    {[n |-> 6, E |-> e, cls |-> c] :
        e \in TwoCommunityGraphs,
        c \in {c \in [NodeSet(6) -> {0, 1}] : \A i \in 2 .. 5 : c[i] = 1}}
    \cup
    {[n |-> 6, E |-> e, cls |-> [i \in NodeSet(6) |-> IF i < 4 THEN 0 ELSE 1]] :
        e \in OneCommunityGraphs}

GreedyInput ==
    /\ \E g \in GreedyInputs : nNodes = g.n /\ edges = g.E /\ classification = g.cls
    /\ classification_at_call = classification
    /\ H_at_call = edges
    /\ block = <<>>
    /\ communities = <<>>
    /\ separation_node_set = <<>> /\ initial_separation_node_set = <<>>
    /\ connection_summary = <<>>
    /\ most_certain_node = 0 /\ most_certain_community = 0
    /\ most_certain_node_connectedness = -1
    /\ loop_a = 0 /\ gpc = "call"

\* lines 285-313: everything up to the assignment loop
GreedyStart ==
    /\ gpc = "call"
    /\ LET cls   == Reclassified(nNodes, edges, classification)
           sep   == SortedSeq({i \in NodeSet(nNodes) : cls[i] = 0})
           comms == InitialCommunities(nNodes, edges, classification)
           cs0   == [i \in Range(sep) |-> [k \in DOMAIN comms |-> 0]]
       IN  /\ classification' = cls
           /\ separation_node_set' = sep
           /\ initial_separation_node_set' = sep
           /\ communities' = comms
           /\ \E o \in ScanOutcomes(edges, cs0, sep, comms, 0, 0) :
                /\ connection_summary' = o.cs
                /\ most_certain_node' = o.node
                /\ most_certain_community' = o.com
                /\ most_certain_node_connectedness' = o.conn
    /\ edges' = EdgesOfHAfterRemoval(nNodes, edges, classification)
    /\ loop_a' = 0
    /\ gpc' = "loop"
    /\ UNCHANGED <<quboVars, lfrVars, fsVars, nNodes, block, valVars, bfsVars, saVars,
                   classification_at_call, H_at_call>>

\* lines 315-328: one pass of "for a in range(len(initial_separation_node_set))"
GreedyAssign ==
    /\ gpc = "loop"
    /\ loop_a < Len(initial_separation_node_set)
    /\ most_certain_community \in DOMAIN communities
    /\ most_certain_node \in Range(separation_node_set)
    /\ LET comms == [communities EXCEPT ![most_certain_community] = @ \cup {most_certain_node}]
           sep   == RemoveFirst(separation_node_set, most_certain_node)
       IN  /\ communities' = comms
           /\ separation_node_set' = sep
           /\ \E o \in ScanOutcomes(edges, connection_summary, sep, comms,
                                   most_certain_node, most_certain_community) :
                /\ connection_summary' = o.cs
                /\ most_certain_node' = o.node
                /\ most_certain_community' = o.com
                /\ most_certain_node_connectedness' = o.conn
    /\ loop_a' = loop_a + 1
    /\ UNCHANGED <<quboVars, lfrVars, fsVars, graphVars, valVars, bfsVars, saVars, classification_at_call, H_at_call, classification, initial_separation_node_set, gpc>>

\* line 316: communities[most_certain_community] on a dict without that key
GreedyKeyError ==
    /\ gpc = "loop"
    /\ loop_a < Len(initial_separation_node_set)
    /\ most_certain_community \notin DOMAIN communities
    /\ gpc' = "KeyError"
    /\ UNCHANGED <<quboVars, lfrVars, fsVars, graphVars, valVars, bfsVars, saVars, classification_at_call, H_at_call, classification, communities, separation_node_set,
                   initial_separation_node_set, connection_summary, most_certain_node,
                   most_certain_community, most_certain_node_connectedness, loop_a>>

\* line 317: separation_node_set.remove(x) with x not in the list
GreedyValueError ==
    /\ gpc = "loop"
    /\ loop_a < Len(initial_separation_node_set)
    /\ most_certain_community \in DOMAIN communities
    /\ most_certain_node \notin Range(separation_node_set)
    /\ communities' = [communities EXCEPT ![most_certain_community] = @ \cup {most_certain_node}]
    /\ gpc' = "ValueError"
    /\ UNCHANGED <<quboVars, lfrVars, fsVars, graphVars, valVars, bfsVars, saVars, classification_at_call, H_at_call, classification, separation_node_set,
                   initial_separation_node_set, connection_summary, most_certain_node,
                   most_certain_community, most_certain_node_connectedness, loop_a>>

\* line 330
GreedyReturn ==
    /\ gpc = "loop"
    /\ loop_a = Len(initial_separation_node_set)
    /\ gpc' = "returned"
    /\ UNCHANGED <<quboVars, lfrVars, fsVars, graphVars, valVars, bfsVars, saVars, classification_at_call, H_at_call, classification, communities, separation_node_set,
                   initial_separation_node_set, connection_summary, most_certain_node,
                   most_certain_community, most_certain_node_connectedness, loop_a>>

InitGreedy == GreedyInput /\ ValIdle /\ BfsIdle /\ SAIdle /\ OthersIdle
NextGreedy == GreedyStart \/ GreedyAssign \/ GreedyKeyError \/ GreedyValueError \/ GreedyReturn
SpecGreedy == InitGreedy /\ [][NextGreedy]_vars

-----------------------------------------------------------------------------
(* neighborhoodConnectivity.bfs                                            *)

\* d[k] = val on a dict d
Put(f, k, val) == [q \in DOMAIN f \cup {k} |-> IF q = k THEN val ELSE f[q]]

\* the pair G.edges() reports for an edge of a graph whose nodes were added
\* in the order 0..n-1
EdgePair(e) ==
    LET lo == CHOOSE i \in e : \A j \in e : i <= j
        hi == CHOOSE i \in e : \A j \in e : j <= i
    IN  <<lo, hi>>

\* A graph on seven nodes: the complete graph on 0..3, three more neighbours
\* of node 2 and two more of node 3.
DenseCoreGraph ==
    {{0, 1}, {0, 2}, {0, 3}, {1, 2}, {1, 3}, {2, 3},
     {2, 4}, {2, 5}, {2, 6}, {3, 4}, {3, 5}}

\* A graph on seven nodes: node 4 has the two neighbours 2 and 3 one layer
\* above it, both reached from node 0 alone; node 6 is adjacent to 0 and 1;
\* node 5 hangs below node 4.
TwoParentGraph ==
    {{0, 1}, {0, 2}, {0, 3}, {2, 4}, {3, 4}, {4, 5}, {0, 6}, {1, 6}}

BfsGraphs ==
    {[n |-> BfsNodes, E |-> e] : e \in SUBSET AllEdges(BfsNodes)}
        \cup {[n |-> 7, E |-> DenseCoreGraph], [n |-> 7, E |-> TwoParentGraph]}

\* (variant: only v is entered as a root)
RootLayer_OnlyV(v, w) == {v}

\* line 56: nodes_in_layers[0] = {v, w}
RootLayer(v, w) == {v, w}

BfsInput ==
    /\ \E g \in BfsGraphs : nNodes = g.n /\ edges = g.E
    /\ block = <<>>
    /\ bfs_v = 0 /\ bfs_w = 0 /\ bfs_d = 0 /\ bfs_d_type = "int"
    /\ edges_at_call = {}
    /\ node_layer_depth = <<>> /\ nodes_in_layers = <<>> /\ edges_in_layers = <<>>
    /\ edge_layer_depth = <<>> /\ sub_tree_root = <<>>
    /\ layer_i = 0 /\ todo_nodes = {}
    /\ nc_a = <<0, 1>> /\ nc = <<0, 1>>
    /\ bpc = "call"

\* lines 41-58: the call bfs(G, v, w, d) up to the loop.  G.remove_edge raises
\* NetworkXError when the edge is absent; range(d + 1) on line 55 raises
\* TypeError when d is a float, after the edge was removed on line 41.
BfsEnter ==
    /\ bpc = "call"
    /\ \E v \in NodeSet(nNodes), w \in NodeSet(nNodes), d \in 0 .. MaxDepth, ty \in {"int", "float"} :
        /\ bfs_v' = v /\ bfs_w' = w /\ bfs_d' = d /\ bfs_d_type' = ty
        /\ edges_at_call' = edges
        /\ IF {v, w} \notin edges
           THEN /\ bpc' = "NetworkXError"
                /\ UNCHANGED <<edges, node_layer_depth, nodes_in_layers, edges_in_layers,
                               edge_layer_depth, sub_tree_root, todo_nodes>>
           ELSE LET E1 == edges \ {{v, w}}
                    eld0 == [q \in {EdgePair(e) : e \in E1} |-> -1]
                IN  /\ edges' = E1
                    /\ edge_layer_depth' = Put(Put(eld0, <<v, w>>, 0), <<w, v>>, 0)
                    /\ sub_tree_root' = [u \in NodeSet(nNodes) |->
                                            IF u = w THEN {w} ELSE IF u = v THEN {v} ELSE {}]
                    /\ node_layer_depth' = [u \in NodeSet(nNodes) |-> IF u \in {v, w} THEN 0 ELSE -1]
                    /\ IF ty = "float"
                       THEN /\ bpc' = "TypeError"
                            /\ UNCHANGED <<nodes_in_layers, edges_in_layers, todo_nodes>>
                       ELSE /\ nodes_in_layers' = [k \in 0 .. d |-> IF k = 0 THEN RootLayer(v, w) ELSE {}]
                            /\ edges_in_layers' = [k \in 1 .. (2 * d - 1) |-> {}]
                            /\ todo_nodes' = IF 0 < d THEN RootLayer(v, w) ELSE {}
                            /\ bpc' = "loop"
    /\ UNCHANGED <<quboVars, lfrVars, fsVars, nNodes, block, valVars, greedyVars, saVars, layer_i, nc_a, nc>>

\* (variant: a same-layer edge is added without looking for the reverse pair)
VisitNeighbor_NoReverseTest(st, i, node, neighbor, both) ==
    LET setDepth(eld, k) == Put(Put(eld, <<node, neighbor>>, k), <<neighbor, node>>, k)
    IN  IF st.nld[neighbor] = -1
        THEN [nil  |-> [st.nil EXCEPT ![i + 1] = @ \cup {neighbor}],
              nld  |-> [st.nld EXCEPT ![neighbor] = i + 1],
              eil  |-> [st.eil EXCEPT ![2 * i + 1] = @ \cup {<<node, neighbor>>}],
              eld  |-> setDepth(st.eld, 2 * i + 1),
              root |-> [st.root EXCEPT ![neighbor] = st.root[node]]]
        ELSE IF st.nld[neighbor] = st.nld[node]
        THEN [st EXCEPT !.eil = [st.eil EXCEPT ![2 * i] = @ \cup {<<node, neighbor>>}],
                        !.eld = setDepth(st.eld, 2 * i)]
        ELSE IF st.nld[neighbor] = st.nld[node] + 1
        THEN [st EXCEPT !.eil = [st.eil EXCEPT ![2 * i + 1] = @ \cup {<<node, neighbor>>}],
                        !.eld = setDepth(st.eld, 2 * i + 1),
                        !.root = [st.root EXCEPT ![neighbor] =
                                     IF st.root[neighbor] # st.root[node] THEN both ELSE @]]
        ELSE st

\* (variant: a node touched again from the layer above is marked with both
\* roots whatever the roots of its parents are)
VisitNeighbor_AlwaysPromoted(st, i, node, neighbor, both) ==
    LET setDepth(eld, k) == Put(Put(eld, <<node, neighbor>>, k), <<neighbor, node>>, k)
    IN  IF st.nld[neighbor] = -1
        THEN [nil  |-> [st.nil EXCEPT ![i + 1] = @ \cup {neighbor}],
              nld  |-> [st.nld EXCEPT ![neighbor] = i + 1],
              eil  |-> [st.eil EXCEPT ![2 * i + 1] = @ \cup {<<node, neighbor>>}],
              eld  |-> setDepth(st.eld, 2 * i + 1),
              root |-> [st.root EXCEPT ![neighbor] = st.root[node]]]
        ELSE IF st.nld[neighbor] = st.nld[node]
        THEN IF <<neighbor, node>> \notin st.eil[2 * i]
             THEN [st EXCEPT !.eil = [st.eil EXCEPT ![2 * i] = @ \cup {<<node, neighbor>>}],
                             !.eld = setDepth(st.eld, 2 * i)]
             ELSE st
        ELSE IF st.nld[neighbor] = st.nld[node] + 1
        THEN [st EXCEPT !.eil = [st.eil EXCEPT ![2 * i + 1] = @ \cup {<<node, neighbor>>}],
                        !.eld = setDepth(st.eld, 2 * i + 1),
                        !.root = [st.root EXCEPT ![neighbor] = both]]
        ELSE st

\* (variant: a node touched again from the layer above keeps the root of the
\* node that discovered it)
VisitNeighbor_FirstRootKept(st, i, node, neighbor, both) ==
    LET setDepth(eld, k) == Put(Put(eld, <<node, neighbor>>, k), <<neighbor, node>>, k)
    IN  IF st.nld[neighbor] = -1
        THEN [nil  |-> [st.nil EXCEPT ![i + 1] = @ \cup {neighbor}],
              nld  |-> [st.nld EXCEPT ![neighbor] = i + 1],
              eil  |-> [st.eil EXCEPT ![2 * i + 1] = @ \cup {<<node, neighbor>>}],
              eld  |-> setDepth(st.eld, 2 * i + 1),
              root |-> [st.root EXCEPT ![neighbor] = st.root[node]]]
        ELSE IF st.nld[neighbor] = st.nld[node]
        THEN IF <<neighbor, node>> \notin st.eil[2 * i]
             THEN [st EXCEPT !.eil = [st.eil EXCEPT ![2 * i] = @ \cup {<<node, neighbor>>}],
                             !.eld = setDepth(st.eld, 2 * i)]
             ELSE st
        ELSE IF st.nld[neighbor] = st.nld[node] + 1
        THEN [st EXCEPT !.eil = [st.eil EXCEPT ![2 * i + 1] = @ \cup {<<node, neighbor>>}],
                        !.eld = setDepth(st.eld, 2 * i + 1)]
        ELSE st

\* lines 63-84: the body of "for neighbor in G.neighbors(node)" for one
\* neighbour, on the dictionaries st = [nil, nld, eil, eld, root]
\* (nodes_in_layers, node_layer_depth, edges_in_layers, edge_layer_depth,
\* sub_tree_root) with i the layer being expanded
VisitNeighbor(st, i, node, neighbor, both) ==
    LET setDepth(eld, k) == Put(Put(eld, <<node, neighbor>>, k), <<neighbor, node>>, k)
    IN  IF st.nld[neighbor] = -1
        THEN [nil  |-> [st.nil EXCEPT ![i + 1] = @ \cup {neighbor}],
              nld  |-> [st.nld EXCEPT ![neighbor] = i + 1],
              eil  |-> [st.eil EXCEPT ![2 * i + 1] = @ \cup {<<node, neighbor>>}],
              eld  |-> setDepth(st.eld, 2 * i + 1),
              root |-> [st.root EXCEPT ![neighbor] = st.root[node]]]
        ELSE IF st.nld[neighbor] = st.nld[node]
        THEN IF <<neighbor, node>> \notin st.eil[2 * i]
             THEN [st EXCEPT !.eil = [st.eil EXCEPT ![2 * i] = @ \cup {<<node, neighbor>>}],
                             !.eld = setDepth(st.eld, 2 * i)]
             ELSE st
        ELSE IF st.nld[neighbor] = st.nld[node] + 1
        THEN [st EXCEPT !.eil = [st.eil EXCEPT ![2 * i + 1] = @ \cup {<<node, neighbor>>}],
                        !.eld = setDepth(st.eld, 2 * i + 1),
                        !.root = [st.root EXCEPT ![neighbor] =
                                     IF st.root[neighbor] # st.root[node] THEN both ELSE @]]
        ELSE st

\* line 62: "for neighbor in G.neighbors(node)" run to its end; the order in
\* which the neighbours come is left open, so the result is the set of the
\* dictionaries the loop can end with
RECURSIVE VisitNeighbors(_, _, _, _, _)
VisitNeighbors(st, i, node, todo, both) ==
    IF todo = {} THEN {st}
    ELSE UNION {VisitNeighbors(VisitNeighbor(st, i, node, neighbor, both), i, node,
                               todo \ {neighbor}, both) : neighbor \in todo}

\* lines 61-84: one pass of "for node in nodes_in_layers[i]"
BfsVisitNode ==
    /\ bpc = "loop"
    /\ \E node \in todo_nodes :
        /\ todo_nodes' = todo_nodes \ {node}
        /\ \E r \in VisitNeighbors([nil |-> nodes_in_layers, nld |-> node_layer_depth,
                                    eil |-> edges_in_layers, eld |-> edge_layer_depth,
                                    root |-> sub_tree_root],
                                   layer_i, node, Neighbors(edges, node), {bfs_v, bfs_w}) :
            /\ nodes_in_layers' = r.nil
            /\ node_layer_depth' = r.nld
            /\ edges_in_layers' = r.eil
            /\ edge_layer_depth' = r.eld
            /\ sub_tree_root' = r.root
    /\ UNCHANGED <<quboVars, lfrVars, fsVars, graphVars, valVars, greedyVars, saVars, bfs_v, bfs_w, bfs_d, bfs_d_type,
                   edges_at_call, layer_i, nc_a, nc, bpc>>

\* line 60: the next value of i
BfsNextLayer ==
    /\ bpc = "loop"
    /\ todo_nodes = {}
    /\ layer_i + 1 < bfs_d
    /\ layer_i' = layer_i + 1
    /\ todo_nodes' = nodes_in_layers[layer_i + 1]
    /\ UNCHANGED <<quboVars, lfrVars, fsVars, graphVars, valVars, greedyVars, saVars, bfs_v, bfs_w, bfs_d, bfs_d_type,
                   edges_at_call, node_layer_depth, nodes_in_layers, edges_in_layers,
                   edge_layer_depth, sub_tree_root, nc_a, nc, bpc>>

\* lines 86-88: G.add_edge(v, w) and the return
BfsReturn ==
    /\ bpc = "loop"
    /\ todo_nodes = {}
    /\ ~(layer_i + 1 < bfs_d)
    /\ edges' = edges \cup {{bfs_v, bfs_w}}
    /\ bpc' = "returned"
    /\ UNCHANGED <<quboVars, lfrVars, fsVars, nNodes, block, valVars, greedyVars, saVars, bfs_v, bfs_w, bfs_d, bfs_d_type,
                   edges_at_call, node_layer_depth, nodes_in_layers, edges_in_layers,
                   edge_layer_depth, sub_tree_root, layer_i, todo_nodes, nc_a, nc>>

-----------------------------------------------------------------------------
(* neighborhoodConnectivity.neighborhood_connectivity                      *)
(* Numbers are exact fractions <<numerator, denominator>>, denominator > 0 *)

\* the damping values a = 0, 1/2 and 1
DampingValues == {<<0, 1>>, <<1, 2>>, <<1, 1>>}

\* lines 128-139: the edges of layer key k that count as connections
NcEdges(eil, root, both, k) ==
    IF k % 2 = 0
    THEN {e \in eil[k] : root[e[1]] # root[e[2]] \/ root[e[1]] = both}
    ELSE {e \in eil[k] : root[e[1]] = both \/ root[e[2]] = both}

\* lines 144-156: free_stubs_v (tag {v}), free_stubs_w (tag {w}) and
\* free_stubs_intersection (tag {v, w}) at depth i
FreeStubs(E, v, w, eil, root, nil, tag, i) ==
    IF i = 0
    THEN IF tag = {v} THEN Degree(E, v) - 1
         ELSE IF tag = {w} THEN Degree(E, w) - 1
         ELSE 0
    ELSE SumFn([node \in {u \in nil[i] : root[u] = tag} |->
                 Degree(E, node)
                 - Cardinality({e \in eil[2 * i - 1] : e[1] = node \/ e[2] = node})])

\* lines 142, 157-158: estimated_connections[k] times 2*G.number_of_edges()
EstimatedTimes2m(E, v, w, eil, root, nil, k) ==
    LET j  == k \div 2
        fv == FreeStubs(E, v, w, eil, root, nil, {v}, j)
        fw == FreeStubs(E, v, w, eil, root, nil, {w}, j)
        fi == FreeStubs(E, v, w, eil, root, nil, {v, w}, j)
    IN  IF k % 2 = 0
        THEN fv * fw + fi * (fv + fw + fi)
        ELSE (fv + fw + fi) * SumFn([node \in nil[j + 1] |-> Degree(E, node)])

\* (len(nc_edges[k]) - estimated_connections[k]) / len(edges_in_layers[k])
NcTerm(E, v, w, eil, root, nil, k) ==
    LET m2 == 2 * Cardinality(E)
    IN  << m2 * Cardinality(NcEdges(eil, root, {v, w}, k))
              - EstimatedTimes2m(E, v, w, eil, root, nil, k),
           m2 * Cardinality(eil[k]) >>

\* lines 160-165: nc before it is rescaled
\* (variant: without the elif branch of line 163)
NcRaw_NoHalfDepthBranch(E, v, w, eil, root, nil, a) ==
    LET d == Cardinality(DOMAIN eil)
    IN  IF d > 1 /\ eil[2] # {}
        THEN LET t1 == NcTerm(E, v, w, eil, root, nil, 1)
                 t2 == NcTerm(E, v, w, eil, root, nil, 2)
             IN  << a[1] * t1[1] * t2[2] + (a[2] - a[1]) * t2[1] * t1[2],
                    a[2] * t1[2] * t2[2] >>
        ELSE <<0, 1>>

NcRaw(E, v, w, eil, root, nil, a) ==
    LET d == Cardinality(DOMAIN eil)
    IN  IF d > 1 /\ eil[2] # {}
        THEN LET t1 == NcTerm(E, v, w, eil, root, nil, 1)
                 t2 == NcTerm(E, v, w, eil, root, nil, 2)
             IN  << a[1] * t1[1] * t2[2] + (a[2] - a[1]) * t2[1] * t1[2],
                    a[2] * t1[2] * t2[2] >>
        ELSE IF eil[1] # {}
        THEN NcTerm(E, v, w, eil, root, nil, 1)
        ELSE <<0, 1>>

\* line 166: nc = (nc+1)/2
Rescale(raw) == <<raw[1] + raw[2], 2 * raw[2]>>

\* The outcome of neighborhood_connectivity on a layering: the score, or the
\* error it raises.  With no layer of edges line 164 looks up the missing key
\* 0.5; with five or more layers of edges line 144 looks up a depth that
\* nodes_in_layers does not have; on line 162 the divisor is
\* len(edges_in_layers[0.5]).
neighborhood_connectivity(E, v, w, eil, root, nil, a) ==
    LET d == Cardinality(DOMAIN eil)
    IN  IF d = 0 \/ \E i \in 1 .. (d - 1) : i \notin DOMAIN nil
        THEN [pc |-> "KeyError", nc |-> <<0, 1>>]
        ELSE IF d > 1 /\ eil[2] # {} /\ eil[1] = {}
        THEN [pc |-> "ZeroDivisionError", nc |-> <<0, 1>>]
        ELSE [pc |-> "scored", nc |-> Rescale(NcRaw(E, v, w, eil, root, nil, a))]

\* the call in run_separation_node_classification, line 248
NeighborhoodConnectivity ==
    /\ bpc = "returned"
    /\ \E a \in DampingValues :
        LET r == neighborhood_connectivity(edges, bfs_v, bfs_w, edges_in_layers,
                                           sub_tree_root, nodes_in_layers, a)
        IN  /\ nc_a' = a
            /\ nc' = r.nc
            /\ bpc' = r.pc
    /\ UNCHANGED <<quboVars, lfrVars, fsVars, graphVars, valVars, greedyVars, saVars, bfs_v, bfs_w, bfs_d, bfs_d_type,
                   edges_at_call, node_layer_depth, nodes_in_layers, edges_in_layers,
                   edge_layer_depth, sub_tree_root, layer_i, todo_nodes>>

InitBfs == BfsInput /\ ValIdle /\ GreedyIdle /\ SAIdle /\ OthersIdle
NextBfs == BfsEnter \/ BfsVisitNode \/ BfsNextLayer \/ BfsReturn
              \/ NeighborhoodConnectivity
SpecBfs == InitBfs /\ [][NextBfs]_vars

-----------------------------------------------------------------------------
(* neighborhoodConnectivity.simulated_annealing                            *)

\* math.exp(y) raises OverflowError for y > 709.782..., and returns 0.0 for
\* y < -745.133...; both limits are kept in thousandths.
ExpOverflowMilli == 709782
ExpUnderflowMilli == 745133

\* the starting temperatures 1, 100 and 0.001
Temperatures == {<<1, 1>>, <<100, 1>>, <<1, 1000>>}

\* lines 355-361: f(solution) = solution @ Q @ solution with Q[i][i] = -1 and
\* Q[i][j] = 2 for the pair (i, j) of every edge between two blocks
Objective(n, E, blk, sol) ==
    2 * Cardinality({e \in E : /\ \A u \in e : sol[u] = 1
                               /\ \E u \in e : \E t \in e : blk[u] # blk[t]})
        - Cardinality({u \in NodeSet(n) : sol[u] = 1})

\* lines 377-379: the candidate with one bit flipped
Flip(sol, bit) == [sol EXCEPT ![bit] = 1 - @]

\* (variant: only the two bijectivity counts are compared)
BestIsReplaced_BijectivityOnly(ce, cv, be, bsep, bsur, binj) ==
    cv[3] <= bsur /\ cv[2] <= binj

\* (variant: the three counts are compared as one sum)
BestIsReplaced_TotalCount(ce, cv, be, bsep, bsur, binj) ==
    ce <= be /\ cv[1] + cv[2] + cv[3] <= bsep + bsur + binj

\* (variant: the surjectivity count is left out of the comparison)
BestIsReplaced_NoSurjectivity(ce, cv, be, bsep, bsur, binj) ==
    ce <= be /\ cv[1] <= bsep /\ cv[2] <= binj

\* lines 384-385: the test that replaces the best state; cv is the triple
\* find_constraint_violations returned for the candidate
BestIsReplaced(ce, cv, be, bsep, bsur, binj) ==
    ce <= be /\ cv[1] <= bsep /\ cv[3] <= bsur /\ cv[2] <= binj

\* line 394-396: -diff / t with t = temp / (i + 1), in thousandths, is beyond
\* the limit of math.exp
ExpOverflows(diff, i, t0) == (0 - diff) * (i + 1) * t0[2] * 1000 > ExpOverflowMilli * t0[1]

ExpUnderflows(diff, i, t0) == diff * (i + 1) * t0[2] * 1000 > ExpUnderflowMilli * t0[1]

\* graphs.find_constraint_violations and f on every (graph, classification)
\* simulated_annealing can pass them, tabulated: both are functions of their
\* arguments alone, and the run calls them on the same graph again and again
SAViolations ==
    [E \in SUBSET AllEdges(SANodes), blk \in BlockLabelings(SANodes, SABlocks),
     sol \in [NodeSet(SANodes) -> {0, 1}] |-> find_constraint_violations(SANodes, E, blk, sol)]

SAObjective ==
    [E \in SUBSET AllEdges(SANodes), blk \in BlockLabelings(SANodes, SABlocks),
     sol \in [NodeSet(SANodes) -> {0, 1}] |-> Objective(SANodes, E, blk, sol)]

SAInput ==
    /\ nNodes = SANodes
    /\ edges \in SUBSET AllEdges(SANodes)
    /\ block \in BlockLabelings(SANodes, SABlocks)
    /\ warmstart \in {<<>>} \cup [NodeSet(SANodes) -> {0, 1}]
    /\ n_iterations \in 0 .. MaxIterations
    /\ temp \in Temperatures
    /\ SALocalsUnset
    /\ sapc = "call"

\* lines 353-372
SAStart ==
    /\ sapc = "call"
    /\ LET x0 == IF warmstart = <<>> THEN [u \in NodeSet(nNodes) |-> 0] ELSE warmstart
           v0 == SAViolations[edges, block, x0]
           e0 == SAObjective[edges, block, x0]
       IN  /\ curr' = x0 /\ curr_eval' = e0
           /\ curr_sep_set_viols' = v0[1] /\ curr_inj_viols' = v0[2] /\ curr_sur_viols' = v0[3]
           /\ best' = x0 /\ best_eval' = e0
           /\ best_sep_set_viols' = v0[1] /\ best_inj_viols' = v0[2] /\ best_sur_viols' = v0[3]
    /\ sa_i' = 0
    /\ sapc' = "loop"
    /\ UNCHANGED <<quboVars, lfrVars, fsVars, graphVars, valVars, greedyVars, bfsVars, warmstart, n_iterations, temp,
                   candidate, candidate_eval, cand_sep_set_viols, cand_inj_viols, cand_sur_viols>>

\* lines 374-405: one iteration.  bit_flip_index is randrange(n); draw tells
\* whether rand() came out below metropolis_eval, which can happen only when
\* metropolis_eval is not 0.0 and cannot fail when metropolis_eval >= 1.
SAIterate ==
    /\ sapc = "loop"
    /\ sa_i < n_iterations
    /\ \E bit_flip_index \in NodeSet(nNodes), draw \in BOOLEAN :
        LET cand == Flip(curr, bit_flip_index)
            cv   == SAViolations[edges, block, cand]
            ce   == SAObjective[edges, block, cand]
            diff == ce - curr_eval
            constraints_diff == (cv[1] + cv[3] + cv[2])
                                   - (curr_sep_set_viols + curr_inj_viols + curr_sur_viols)
            below == IF diff <= 0 THEN TRUE
                     ELSE IF ExpUnderflows(diff, sa_i, temp) THEN FALSE
                     ELSE draw
        IN  /\ candidate' = cand /\ candidate_eval' = ce
            /\ cand_sep_set_viols' = cv[1] /\ cand_inj_viols' = cv[2] /\ cand_sur_viols' = cv[3]
            /\ IF BestIsReplaced(ce, cv, best_eval, best_sep_set_viols, best_sur_viols, best_inj_viols)
               THEN /\ best' = cand /\ best_eval' = ce
                    /\ best_sep_set_viols' = cv[1] /\ best_sur_viols' = cv[3] /\ best_inj_viols' = cv[2]
               ELSE UNCHANGED <<best, best_eval, best_sep_set_viols, best_sur_viols, best_inj_viols>>
            /\ IF ExpOverflows(diff, sa_i, temp)
               THEN /\ sapc' = "OverflowError"
                    /\ UNCHANGED <<curr, curr_eval, curr_sep_set_viols, curr_inj_viols,
                                   curr_sur_viols, sa_i>>
               ELSE /\ IF constraints_diff <= 0 /\ (diff <= 0 \/ below)
                       THEN /\ curr' = cand /\ curr_eval' = ce
                            /\ curr_sep_set_viols' = cv[1] /\ curr_inj_viols' = cv[2]
                            /\ curr_sur_viols' = cv[3]
                       ELSE UNCHANGED <<curr, curr_eval, curr_sep_set_viols, curr_inj_viols,
                                        curr_sur_viols>>
                    /\ sa_i' = sa_i + 1
                    /\ sapc' = "loop"
    /\ UNCHANGED <<quboVars, lfrVars, fsVars, graphVars, valVars, greedyVars, bfsVars, warmstart, n_iterations, temp>>

\* line 414
SAReturn ==
    /\ sapc = "loop"
    /\ sa_i = n_iterations
    /\ sapc' = "returned"
    /\ UNCHANGED <<quboVars, lfrVars, fsVars, graphVars, valVars, greedyVars, bfsVars, warmstart, n_iterations, temp,
                   curr, curr_eval, curr_sep_set_viols, curr_inj_viols, curr_sur_viols,
                   best, best_eval, best_sep_set_viols, best_sur_viols, best_inj_viols,
                   candidate, candidate_eval, cand_sep_set_viols, cand_inj_viols,
                   cand_sur_viols, sa_i>>

\* line 414: the tuple handed back,
\* best, best_eval, best_sep_set_viols, best_sur_viols, best_inj_viols
SAReturnValue == <<best, best_eval, best_sep_set_viols, best_sur_viols, best_inj_viols>>

\* lines 374-405 for the pair <<curr, best>> alone (every other local of the
\* loop is a function of the two): the pairs one iteration i can leave
\* behind, over every value randrange(n) and rand() can give; an iteration
\* that raises OverflowError leaves none
IterationOutcomes(E, blk, t0, i, pair) ==
    LET cur == pair[1]
        bst == pair[2]
        bv  == SAViolations[E, blk, bst]
        after(bit, draw) ==
            LET cand == Flip(cur, bit)
                cv   == SAViolations[E, blk, cand]
                ce   == SAObjective[E, blk, cand]
                diff == ce - SAObjective[E, blk, cur]
                constraints_diff == SumFn(cv) - SumFn(SAViolations[E, blk, cur])
                below == IF diff <= 0 THEN TRUE
                         ELSE IF ExpUnderflows(diff, i, t0) THEN FALSE
                         ELSE draw
                nbest == IF BestIsReplaced(ce, cv, SAObjective[E, blk, bst], bv[1], bv[3], bv[2])
                         THEN cand ELSE bst
                ncur  == IF constraints_diff <= 0 /\ (diff <= 0 \/ below) THEN cand ELSE cur
            IN  IF ExpOverflows(diff, i, t0) THEN {} ELSE {<<ncur, nbest>>}
    IN  UNION {after(bit, draw) : bit \in DOMAIN cur, draw \in BOOLEAN}

\* the pairs <<curr, best>> the loop can hold when iteration i is about to start
RECURSIVE PairsBefore(_, _, _, _, _)
PairsBefore(E, blk, ws, t0, i) ==
    IF i = 0
    THEN LET x0 == IF ws = <<>> THEN [u \in NodeSet(SANodes) |-> 0] ELSE ws IN {<<x0, x0>>}
    ELSE UNION {IterationOutcomes(E, blk, t0, i - 1, pair) :
                    pair \in PairsBefore(E, blk, ws, t0, i - 1)}

\* every tuple simulated_annealing(G, warmstart, n_iterations, temp) can return
SAOutcomes(E, blk, ws, n, t0) ==
    {LET bv == SAViolations[E, blk, pair[2]]
     IN  <<pair[2], SAObjective[E, blk, pair[2]], bv[1], bv[3], bv[2]>> :
         pair \in PairsBefore(E, blk, ws, t0, n)}

InitSA == SAInput /\ ValIdle /\ GreedyIdle /\ BfsIdle /\ OthersIdle
NextSA == SAStart \/ SAIterate \/ SAReturn
SpecSA == InitSA /\ [][NextSA]_vars

-----------------------------------------------------------------------------
(* graphs.create_lfr_graph                                                 *)
(* The generated graph is kept as what the function looks at: whether it   *)
(* is connected.                                                           *)

\* the values of diff: the ones the function compares with, and the default
DiffValues == {"easy", "lfr_easy", "medium", "lfr_medium", "hard", "lfr_hard", "test", "default"}

\* lines 44-55: the values of diff for which create_lfr_benchmark_graph is called
Benchmarks == {"easy", "lfr_easy", "medium", "lfr_medium", "hard", "lfr_hard", "test"}

\* lines 43-60: what one pass through the try block can do: the generator
\* returns a connected or a disconnected graph or raises
\* ExceededMaxIterations (caught at line 59); for any other diff the else
\* branch only prints
GeneratorOutcomes(diff) ==
    IF diff \in Benchmarks THEN {"connected", "disconnected", "ExceededMaxIterations"}
    ELSE {"No correct benchmark given!"}

LfrInput ==
    /\ lfr_diff \in DiffValues
    /\ lfr_filename \in {"None", "seedfile"}
    /\ lfr_G = "None" /\ lfr_connected = FALSE /\ lfr_seed = 0 /\ lfr_i = 0
    /\ lfr_file = <<>>
    /\ lfrpc = "call"
    /\ nNodes = 0 /\ edges = {} /\ block = <<>>

\* lines 34-38
LfrStart ==
    /\ lfrpc = "call"
    /\ lfr_G' = "None" /\ lfr_seed' = 0 /\ lfr_connected' = FALSE /\ lfr_i' = 0
    /\ lfrpc' = "loop"
    /\ UNCHANGED <<graphVars, valVars, greedyVars, bfsVars, saVars, fsVars, quboVars,
                   lfr_diff, lfr_filename, lfr_file>>

\* lines 39-66: one pass of "while G is None or not connected" in which the
\* try block does outcome.  i only feeds the progress line that is printed;
\* it is counted up to MaxTries.
LfrTryWith(outcome) ==
    /\ lfrpc = "loop"
    /\ lfr_G = "None" \/ ~lfr_connected
    /\ outcome \in GeneratorOutcomes(lfr_diff)
    /\ lfr_seed' \in 1 .. NumSeeds
    /\ lfr_i' = IF lfr_i < MaxTries THEN lfr_i + 1 ELSE lfr_i
    /\ LET G1 == IF outcome \in {"connected", "disconnected"} THEN outcome ELSE lfr_G
       IN  IF G1 # "None"
           THEN /\ lfr_connected' = (G1 = "connected")
                /\ lfr_G' = IF G1 = "connected" THEN G1 ELSE "None"
           ELSE /\ lfr_connected' = lfr_connected
                /\ lfr_G' = G1
    /\ UNCHANGED <<graphVars, valVars, greedyVars, bfsVars, saVars, fsVars, quboVars,
                   lfr_diff, lfr_filename, lfr_file, lfrpc>>

LfrTry ==
    \E outcome \in {"connected", "disconnected", "ExceededMaxIterations",
                     "No correct benchmark given!"} : LfrTryWith(outcome)

\* lines 68-72: the loop has ended
LfrReturn ==
    /\ lfrpc = "loop"
    /\ ~(lfr_G = "None" \/ ~lfr_connected)
    /\ lfr_file' = IF lfr_filename # "None" THEN Append(lfr_file, lfr_seed) ELSE lfr_file
    /\ lfrpc' = "returned"
    /\ UNCHANGED <<graphVars, valVars, greedyVars, bfsVars, saVars, fsVars, quboVars,
                   lfr_diff, lfr_filename, lfr_G, lfr_connected, lfr_seed, lfr_i>>

InitLfr == LfrInput /\ ValIdle /\ GreedyIdle /\ BfsIdle /\ SAIdle /\ FsIdle /\ QuboIdle
NextLfr == LfrStart \/ LfrTry \/ LfrReturn

\* The function keeps running until it returns, and a generator that is
\* called again and again with fresh random seeds gives a connected graph
\* at some point.
SpecLfr ==
    InitLfr /\ [][NextLfr]_vars /\ WF_vars(NextLfr) /\ SF_vars(LfrTryWith("connected"))

-----------------------------------------------------------------------------
(* graphs.find_separation_node_set                                         *)
(* The "ground_truth_community" attribute of a node is the string of the   *)
(* set of nodes of its community (create_lfr_benchmark_graph, line 46);    *)
(* block[i] names that set, so gt_communities is GtCommunities.            *)

\* lines 327-341: every connected component is a subset of a community (the
\* inner loop breaks at the first one found)
EveryComponentInsideACommunity(comps, coms) ==
    \A cc \in comps : \E com \in coms : cc \subseteq com

\* lines 344-358: every community is a superset of exactly one component
\* (variant: of at most one component)
EveryCommunityHoldsOneComponent_AtMostOne(comps, coms) ==
    \A com \in coms : Cardinality({cc \in comps : cc \subseteq com}) <= 1

EveryCommunityHoldsOneComponent(comps, coms) ==
    \A com \in coms : Cardinality({cc \in comps : cc \subseteq com}) = 1

\* lines 315-358: the checks that do not end in "return set()"
ChecksPass(n, E, blk, identified) ==
    LET comps == ConnectedComponents(NodeSet(n) \ identified, E)
        coms  == GtCommunities(n, blk)
    IN  /\ EveryComponentInsideACommunity(comps, coms)
        /\ EveryCommunityHoldsOneComponent(comps, coms)

FsInput ==
    /\ nNodes = FsNodes
    /\ edges \in SUBSET AllEdges(FsNodes)
    /\ block \in BlockLabelings(FsNodes, FsBlocks)
    /\ solution = <<>> /\ identified_nodes = {}
    /\ separation_node = [v \in NodeSet(FsNodes) |-> "unset"]
    /\ fs_result = {}
    /\ fspc = "call"

\* lines 300-313: the QUBO is handed to the annealing sampler, whose first
\* sample can be any 0/1 assignment of the nodes
Samples(n) == [NodeSet(n) -> {0, 1}]

\* line 313: the nodes with value 0 are the identified ones
IdentifiedNodes(n, sol) == {v \in NodeSet(n) : sol[v] = 0}

\* lines 300-358: one of the checks fails, "return set()"
FsReject ==
    /\ fspc = "call"
    /\ \E sol \in Samples(nNodes) :
          /\ ~ChecksPass(nNodes, edges, block, IdentifiedNodes(nNodes, sol))
          /\ solution' = sol
          /\ identified_nodes' = IdentifiedNodes(nNodes, sol)
    /\ fs_result' = {}
    /\ fspc' = "returned"
    /\ UNCHANGED <<graphVars, valVars, greedyVars, bfsVars, saVars, lfrVars, quboVars,
                   separation_node>>

\* lines 300-371: the checks pass; the node attribute separation_node is set
\* on G and the identified nodes are returned
FsAccept ==
    /\ fspc = "call"
    /\ \E sol \in Samples(nNodes) :
          /\ ChecksPass(nNodes, edges, block, IdentifiedNodes(nNodes, sol))
          /\ solution' = sol
          /\ identified_nodes' = IdentifiedNodes(nNodes, sol)
    /\ separation_node' = [v \in NodeSet(nNodes) |-> v \in identified_nodes']
    /\ fs_result' = identified_nodes'
    /\ fspc' = "returned"
    /\ UNCHANGED <<graphVars, valVars, greedyVars, bfsVars, saVars, lfrVars, quboVars>>

InitSeparator == FsInput /\ ValIdle /\ GreedyIdle /\ BfsIdle /\ SAIdle /\ LfrIdle /\ QuboIdle
NextSeparator == FsReject \/ FsAccept
SpecSeparator == InitSeparator /\ [][NextSeparator]_vars

-----------------------------------------------------------------------------
(* neighborhoodConnectivity.calculate_qubo_nc, with the estimations that   *)
(* run_separation_node_classification builds for it.                       *)

\* lines 244-247: "for (i, j) in G.edges()" gives every edge once, as one of
\* its two pairs; these are the sets of keys that estimations can have
RECURSIVE EdgeKeys(_)
EdgeKeys(E) ==
    IF E = {} THEN {{}}
    ELSE LET e == CHOOSE e \in E : TRUE
             a == CHOOSE a \in e : TRUE
             b == CHOOSE b \in e : b # a
         IN  UNION {{K \cup {<<a, b>>}, K \cup {<<b, a>>}} : K \in EdgeKeys(E \ {e})}

\* line 246-247: scores that neighborhood_connectivity can return
NcValues == {<<0, 1>>, <<1, 2>>, <<1, 1>>}

\* line 214: 2 * (1 - estimations[(i, j)])
TwoTimesOneMinus(r) == <<2 * (r[2] - r[1]), r[2]>>

\* lines 207-216
\* (variant: the score is written in both directions)
calculate_qubo_nc_BothDirections(n, est) ==
    [i \in NodeSet(n) |-> [j \in NodeSet(n) |->
        IF <<i, j>> \in DOMAIN est THEN TwoTimesOneMinus(est[<<i, j>>])
        ELSE IF <<j, i>> \in DOMAIN est THEN TwoTimesOneMinus(est[<<j, i>>])
        ELSE IF i = j THEN <<-1, 1>>
        ELSE <<0, 1>>]]

calculate_qubo_nc(n, est) ==
    [i \in NodeSet(n) |-> [j \in NodeSet(n) |->
        IF <<i, j>> \in DOMAIN est THEN TwoTimesOneMinus(est[<<i, j>>])
        ELSE IF i = j THEN <<-1, 1>>
        ELSE <<0, 1>>]]

QuboInput ==
    /\ nNodes = QuboNodes
    /\ edges \in SUBSET AllEdges(QuboNodes)
    /\ block = [i \in NodeSet(QuboNodes) |-> 0]
    /\ \E K \in EdgeKeys(edges) : estimations \in [K -> NcValues]
    /\ Q = <<>>
    /\ qpc = "call"

CalculateQuboNc ==
    /\ qpc = "call"
    /\ Q' = calculate_qubo_nc(nNodes, estimations)
    /\ qpc' = "done"
    /\ UNCHANGED <<graphVars, valVars, greedyVars, bfsVars, saVars, lfrVars, fsVars,
                   estimations>>

InitQubo == QuboInput /\ ValIdle /\ GreedyIdle /\ BfsIdle /\ SAIdle /\ LfrIdle /\ FsIdle
NextQubo == CalculateQuboNc
SpecQubo == InitQubo /\ [][NextQubo]_vars

-----------------------------------------------------------------------------
(* C1: find_constraint_violations returns (0,0,0) exactly when every        *)
(* residual component lies inside exactly one ground-truth community and   *)
(* every ground-truth community contains exactly one residual component;   *)
(* on the path 0-1-2-3 with communities {0,1},{2,3} removing only node 1   *)
(* or only node 2 gives (0,0,0) and removing only node 0 does not.         *)

BijectiveRefinement ==
    LET comps == ResidualComponents(nNodes, edges, x)
        coms  == GtCommunities(nNodes, block)
    IN  /\ \A cc \in comps : Cardinality({com \in coms : cc \subseteq com}) = 1
        /\ \A com \in coms : Cardinality({cc \in comps : cc \subseteq com}) = 1

IsPathScenario ==
    /\ nNodes = 4
    /\ edges = PathGraph
    /\ block[0] = block[1] /\ block[2] = block[3] /\ block[1] # block[2]

OnlyRemoved(u) == \A i \in NodeSet(nNodes) : (x[i] = 0) <=> (i = u)

C1_ZeroTripleIffBijectiveRefinement ==
    vpc = "done" =>
        /\ (viols = <<0, 0, 0>>) <=> BijectiveRefinement
        /\ IsPathScenario /\ (OnlyRemoved(1) \/ OnlyRemoved(2)) => viols = <<0, 0, 0>>
        /\ IsPathScenario /\ OnlyRemoved(0) => viols # <<0, 0, 0>>

C1_Witness ==
    /\ vpc = "done"
    /\ IsPathScenario
    /\ OnlyRemoved(1)
    /\ viols = <<0, 0, 0>>

-----------------------------------------------------------------------------
(* C2: whenever greedy_separation_node_classification returns, the         *)
(* returned communities are a partition of the nodes of H: every node is   *)
(* in some community and no node is in two communities.                    *)

C2_ReturnedCommunitiesPartition ==
    gpc = "returned" =>
        /\ UNION {communities[k] : k \in DOMAIN communities} = NodeSet(nNodes)
        /\ \A k \in DOMAIN communities : \A l \in DOMAIN communities :
               k # l => communities[k] \cap communities[l] = {}

C2_Witness ==
    /\ gpc = "returned"
    /\ Cardinality(DOMAIN communities) >= 2
    /\ Len(initial_separation_node_set) >= 1
    /\ \E k \in DOMAIN communities : Cardinality(communities[k]) >= 3

(* C3: greedy_separation_node_classification is total: on every graph with *)
(* node ids 0..n-1 and every classification over all nodes it runs to      *)
(* completion without raising an error.                                    *)

C3_GreedyNeverRaises == gpc \notin {"KeyError", "ValueError"}

(* C4: over a whole run of simulated_annealing the best state only ever    *)
(* improves: whenever it is replaced, the new best objective is <= the     *)
(* previous one and each of the three violation counts of the new best is  *)
(* <= the corresponding count of the previous best.                        *)

C4_BestNeverWorsens ==
    [][sapc = "loop" =>
          /\ best_eval' <= best_eval
          /\ best_sep_set_viols' <= best_sep_set_viols
          /\ best_inj_viols' <= best_inj_viols
          /\ best_sur_viols' <= best_sur_viols]_vars

StartState == IF warmstart = <<>> THEN [u \in NodeSet(nNodes) |-> 0] ELSE warmstart

C4_Witness ==
    /\ sapc = "returned"
    /\ best # StartState
    /\ best_eval < Objective(nNodes, edges, block, StartState)
    /\ best_sur_viols < find_constraint_violations(nNodes, edges, block, StartState)[3]

(* C5: for every graph with at least one edge, every edge (v,w) and every  *)
(* damping value a in [0,1], the score returned by neighborhood_connectivity *)
(* on the layering of bfs(G, v, w, 2) lies between 0 and 1.                *)

C5_ScoreWithinUnitInterval ==
    (bpc = "scored" /\ bfs_d = 2) => (0 <= nc[1] /\ nc[1] <= nc[2])

(* C6: for an adjacent pair (v,w) and a depth d >= 1, bfs returns          *)
(* nodes_in_layers[0] = {v,w}, gives every node within distance d of v or  *)
(* w (in the graph without the edge (v,w)) that distance as its depth, and  *)
(* leaves every other node at depth -1.                                    *)

\* the shortest distance from v or w, in the graph the call was given without
\* the edge (v, w), of every node that can be reached: f holds the distances
\* found so far, frontier the nodes at distance k
RECURSIVE DistancesFrom(_, _, _)
DistancesFrom(f, frontier, k) ==
    IF frontier = {} THEN f
    ELSE LET next == {u \in NodeSet(nNodes) \ DOMAIN f :
                         \E t \in frontier : {t, u} \in edges_at_call \ {{bfs_v, bfs_w}}}
         IN  DistancesFrom(f @@ [u \in next |-> k + 1], next, k + 1)

Distances == DistancesFrom([u \in {bfs_v, bfs_w} |-> 0], {bfs_v, bfs_w}, 0)

Distance(u) == LET dist == Distances IN IF u \in DOMAIN dist THEN dist[u] ELSE -1

C6_DepthIsShortestDistance ==
    (bpc = "returned" /\ bfs_d >= 1) =>
        /\ nodes_in_layers[0] = {bfs_v, bfs_w}
        /\ \A u \in NodeSet(nNodes) :
              node_layer_depth[u] =
                  IF Distance(u) # -1 /\ Distance(u) <= bfs_d THEN Distance(u) ELSE -1

C6_Witness ==
    /\ bpc = "returned"
    /\ bfs_d >= 1
    /\ \E u \in NodeSet(nNodes) : node_layer_depth[u] = bfs_d
    /\ \E u \in NodeSet(nNodes) : node_layer_depth[u] = -1 /\ Distance(u) > bfs_d

(* C7: whenever a call of bfs ends, by returning or by raising an error,   *)
(* the edge set of G is what it was before the call.                       *)

C7_EdgesRestoredOnEveryExit ==
    bpc \in {"returned", "NetworkXError", "TypeError"} => edges = edges_at_call

(* C8: bfs rejects a pair (v,w) that is not adjacent, and a depth d < 1,   *)
(* with an error before doing any work: no layering is produced and the    *)
(* graph is left unchanged.                                                *)

C8_InvalidInputRejected ==
    (bpc \notin {"idle", "call"} /\ ({bfs_v, bfs_w} \notin edges_at_call \/ bfs_d < 1)) =>
        /\ bpc \in {"NetworkXError", "TypeError"}
        /\ edges = edges_at_call
        /\ nodes_in_layers = <<>>

(* C9: no iteration of simulated_annealing aborts with a numeric overflow: *)
(* the Metropolis exponent is bounded before it is exponentiated.          *)

C9_NoOverflowError == sapc # "OverflowError"

(* C10: simulated_annealing ends only by returning, and only after it has  *)
(* proposed and evaluated exactly n_iterations candidates.                 *)

C10_EndsAfterExactlyNIterations ==
    sapc \notin {"idle", "call", "loop"} => (sapc = "returned" /\ sa_i = n_iterations)

-----------------------------------------------------------------------------
(* C11: the tuple returned by simulated_annealing is consistent with its  *)
(* best state: its second entry is the objective of the returned state and *)
(* its last three entries are the triple find_constraint_violations gives  *)
(* for that state, in the order (separation-set, injectivity,              *)
(* surjectivity).                                                          *)

C11_ReturnedTupleMatchesBest ==
    sapc = "returned" =>
        /\ SAReturnValue[2] = Objective(nNodes, edges, block, SAReturnValue[1])
        /\ <<SAReturnValue[3], SAReturnValue[4], SAReturnValue[5]>>
              = find_constraint_violations(nNodes, edges, block, SAReturnValue[1])

-----------------------------------------------------------------------------
(* C12: the result of bfs(G, v, w, d) does not depend on the order in      *)
(* which the nodes of a layer or the neighbours of a node are iterated:    *)
(* whatever the order, node_layer_depth, nodes_in_layers, sub_tree_root,   *)
(* edge_layer_depth and the edge sets of edges_in_layers (read as          *)
(* unordered pairs) are the same functions of G, v, w and d.               *)

\* the depth of every node that the arguments alone determine
DepthOf ==
    LET dist == Distances
    IN  [u \in NodeSet(nNodes) |-> IF u \in DOMAIN dist /\ dist[u] <= bfs_d THEN dist[u] ELSE -1]

\* the root tag of u that the arguments alone determine, given the depths:
\* the tag shared by all neighbours one layer up, or both roots when they
\* carry different tags
RECURSIVE RootOf(_, _)
RootOf(dep, u) ==
    IF dep[u] = 0 THEN {u}
    ELSE IF dep[u] = -1 THEN {}
    ELSE LET up   == {p \in NodeSet(nNodes) : {p, u} \in edges_at_call /\ dep[p] = dep[u] - 1}
             tags == {RootOf(dep, p) : p \in up}
         IN  IF Cardinality(tags) = 1 THEN CHOOSE t \in tags : TRUE ELSE {bfs_v, bfs_w}

\* the explored edges with depths adding up to key (key is twice the depth
\* of the edge)
EdgesAt(dep, key) ==
    {e \in edges_at_call \ {{bfs_v, bfs_w}} :
        /\ \A u \in e : dep[u] >= 0
        /\ \E a \in e : \E b \in e :
              a # b /\ dep[a] + dep[b] = key /\ dep[b] - dep[a] \in {0, 1}}

EdgeDepthOf(dep) ==
    LET at == [key \in 1 .. (2 * bfs_d - 1) |-> EdgesAt(dep, key)]
        explored == UNION {at[key] : key \in DOMAIN at}
        keyOf(e) == CHOOSE key \in DOMAIN at : e \in at[key]
        pairs == {EdgePair(e) : e \in edges_at_call \ {{bfs_v, bfs_w}}}
                   \cup {<<bfs_v, bfs_w>>, <<bfs_w, bfs_v>>}
                   \cup {<<a, b>> \in NodeSet(nNodes) \X NodeSet(nNodes) : {a, b} \in explored}
    IN  [q \in pairs |->
            IF {q[1], q[2]} = {bfs_v, bfs_w} THEN 0
            ELSE IF {q[1], q[2]} \in explored THEN keyOf({q[1], q[2]})
            ELSE -1]

Unordered(S) == {{t[1], t[2]} : t \in S}

C12_ResultIndependentOfIterationOrder ==
    bpc = "returned" =>
        LET dep == DepthOf
        IN  /\ node_layer_depth = dep
            /\ nodes_in_layers = [k \in 0 .. bfs_d |-> {u \in NodeSet(nNodes) : dep[u] = k}]
            /\ sub_tree_root = [u \in NodeSet(nNodes) |-> RootOf(dep, u)]
            /\ edge_layer_depth = EdgeDepthOf(dep)
            /\ DOMAIN edges_in_layers = 1 .. (2 * bfs_d - 1)
            /\ \A key \in DOMAIN edges_in_layers :
                  Unordered(edges_in_layers[key]) = EdgesAt(dep, key)

\* a returned layering with a same-layer edge that another order would have
\* stored the other way round, and a node reached from both roots
C12_Witness ==
    /\ bpc = "returned"
    /\ \E key \in DOMAIN edges_in_layers :
          key % 2 = 0 /\ \E t \in edges_in_layers[key] : t[1] > t[2]
    /\ \E u \in NodeSet(nNodes) : u \notin {bfs_v, bfs_w} /\ sub_tree_root[u] = {bfs_v, bfs_w}

-----------------------------------------------------------------------------
(* C13: the random choices of simulated_annealing come from a source the   *)
(* caller passes in, so the arguments of a call determine what it returns: *)
(* every run with the same graph, warm start, iteration count and          *)
(* temperature returns the same best state, objective and violation        *)
(* counts.                                                                 *)

C13_SameArgumentsSameResult ==
    sapc = "returned" =>
        \A r \in SAOutcomes(edges, block, warmstart, n_iterations, temp) : r = SAReturnValue

-----------------------------------------------------------------------------
(* C14: at every step of the assignment loop of                            *)
(* greedy_separation_node_classification the (node, community) pair that   *)
(* gets assigned maximises, over the separation nodes not yet assigned and *)
(* all communities, the number of neighbours of the node in H that are     *)
(* members of the community at that moment.                                *)

\* the neighbours of i in H that are in community k now
NeighboursInCommunity(i, k) == Cardinality(Neighbors(edges, i) \cap communities[k])

\* the loop is about to assign most_certain_node to most_certain_community
AboutToAssign ==
    /\ gpc = "loop"
    /\ loop_a < Len(initial_separation_node_set)
    /\ most_certain_community \in DOMAIN communities
    /\ most_certain_node \in Range(separation_node_set)

C14_AssignedPairMaximises ==
    AboutToAssign =>
        \A i \in Range(separation_node_set) : \A k \in DOMAIN communities :
            NeighboursInCommunity(i, k)
                <= NeighboursInCommunity(most_certain_node, most_certain_community)

-----------------------------------------------------------------------------
(* C15: create_lfr_graph terminates for every value of diff and returns a  *)
(* connected graph: for "easy", "medium", "hard" after retrying until the  *)
(* generated graph is connected, for any other value (such as the default  *)
(* "default") with a default graph.                                        *)

C15_TerminatesWithConnectedGraph == <>(lfrpc = "returned" /\ lfr_G = "connected")

-----------------------------------------------------------------------------
(* C16: find_separation_node_set returns the node set chosen by the solver *)
(* only when that set is an adequate (bijective) separator-node set: after *)
(* removing it the connected components and the ground-truth communities   *)
(* are matched one to one, each component inside its community.  In every  *)
(* other case it returns the empty set.                                    *)

\* a one-to-one matching of the components left by removing S onto the
\* communities, each component inside its community
AdequateSet(S) ==
    LET comps == ConnectedComponents(NodeSet(nNodes) \ S, edges)
        coms  == GtCommunities(nNodes, block)
    IN  \E f \in [comps -> coms] :
            /\ \A cc \in comps : cc \subseteq f[cc]
            /\ \A c1, c2 \in comps : f[c1] = f[c2] => c1 = c2
            /\ \A com \in coms : \E cc \in comps : f[cc] = com

SolverSet == {v \in NodeSet(nNodes) : solution[v] = 0}

C16_SolverSetReturnedOnlyIfAdequate ==
    fspc = "returned" =>
        fs_result = IF AdequateSet(SolverSet) THEN SolverSet ELSE {}

C16_Witness ==
    /\ fspc = "returned"
    /\ fs_result = SolverSet
    /\ fs_result # {}
    /\ edges # {}
    /\ Cardinality(GtCommunities(nNodes, block)) = 2

-----------------------------------------------------------------------------
(* C17: the first value returned by find_constraint_violations is the sum, *)
(* over the residual components that intersect more than one ground-truth  *)
(* community, of the sizes of all their intersections with communities     *)
(* except the single largest one; a component inside one community adds 0. *)

\* the nodes left after the separation nodes are removed
ResidualNodes == {i \in NodeSet(nNodes) : x[i] # 0}

\* the component of the residual graph that holds node i
ComponentOf(i) == Reach({i}, InducedEdges(ResidualNodes, edges))

\* the nodes of community b in the component cc
Share(cc, b) == {i \in cc : block[i] = b}

BlockIds == {block[i] : i \in NodeSet(nNodes)}

LargestShare(cc) ==
    CHOOSE m \in {Cardinality(Share(cc, b)) : b \in BlockIds} :
        \A b \in BlockIds : Cardinality(Share(cc, b)) <= m

\* every node of a component is in one community, so what is left of a
\* component without its largest intersection is its size less that share
OutsideLargestShare(cc) == Cardinality(cc) - LargestShare(cc)

RECURSIVE SumOver(_, _)
SumOver(S, f) ==
    IF S = {} THEN 0
    ELSE LET e == CHOOSE e \in S : TRUE IN f[e] + SumOver(S \ {e}, f)

ResidualComponentSet == {ComponentOf(i) : i \in ResidualNodes}

MixedComponents ==
    {cc \in ResidualComponentSet : Cardinality({b \in BlockIds : Share(cc, b) # {}}) > 1}

C17_SeparationCountIsSumOutsideLargest ==
    vpc = "done" =>
        /\ viols[1] = SumOver(MixedComponents,
                              [cc \in MixedComponents |-> OutsideLargestShare(cc)])
        /\ \A cc \in ResidualComponentSet \ MixedComponents : OutsideLargestShare(cc) = 0

C17_Witness ==
    /\ vpc = "done"
    /\ viols[1] = 1
    /\ \E cc \in MixedComponents : Cardinality(cc) = 3
    /\ ResidualComponentSet # MixedComponents

-----------------------------------------------------------------------------
(* C18: the second value returned by find_constraint_violations is the     *)
(* sum, over the ground-truth communities that intersect more than one     *)
(* residual component, of the full sizes of the intersecting components    *)
(* except the largest of them; the third value is the number of            *)
(* communities that intersect no residual component.                       *)

\* the residual components that hold a node of community b
ComponentsMeeting(b) == {cc \in ResidualComponentSet : Share(cc, b) # {}}

LargestComponent(b) ==
    CHOOSE m \in {Cardinality(cc) : cc \in ComponentsMeeting(b)} :
        \A cc \in ComponentsMeeting(b) : Cardinality(cc) <= m

SplitCommunities == {b \in BlockIds : Cardinality(ComponentsMeeting(b)) > 1}

AllButLargestComponent(b) ==
    SumOver(ComponentsMeeting(b), [cc \in ComponentsMeeting(b) |-> Cardinality(cc)])
        - LargestComponent(b)

\* a community meets no residual component when all its nodes are removed
RemovedCommunities == {b \in BlockIds : \A i \in NodeSet(nNodes) : block[i] = b => x[i] = 0}

C18_InjectivityAndSurjectivityCounts ==
    vpc = "done" =>
        /\ viols[2] = SumOver(SplitCommunities,
                              [b \in SplitCommunities |-> AllButLargestComponent(b)])
        /\ viols[3] = Cardinality(RemovedCommunities)

C18_Witness ==
    /\ vpc = "done"
    /\ viols[2] > 0
    /\ viols[3] > 0
    /\ \E cc \in ResidualComponentSet : Cardinality(cc) > 1

-----------------------------------------------------------------------------
(* C19: find_constraint_violations is a pure function of (graph,           *)
(* classification): it leaves the node set, the edge set and the node      *)
(* attributes of G and the list x unchanged, and two calls with the same G *)
(* and x return the same triple (whatever the order in which the sets are  *)
(* iterated, the call can return one triple only, the one it returns).     *)

ValidatorCallStep == vpc = "call" /\ vpc' = "done"

C19_ValidatorIsPure ==
    [][ValidatorCallStep =>
            /\ nNodes' = nNodes /\ edges' = edges /\ block' = block
            /\ x' = x
            /\ TripleOutcomes(nNodes, edges, block, x) = {viols'}]_vars

C19_Witness ==
    /\ vpc = "done"
    /\ viols # <<0, 0, 0>>
    /\ \E e \in edges : \E i \in e : x[i] = 0
    /\ Cardinality(ResidualComponents(nNodes, edges, x)) >= 2

-----------------------------------------------------------------------------
(* C20: in simulated_annealing a candidate becomes the current state only  *)
(* if its total violation count (the sum of the three counts) is <= the    *)
(* current state's total, so the total of the current state never          *)
(* increases from one iteration to the next; among the candidates passing  *)
(* that gate, one whose objective does not increase is always accepted.    *)

CurrTotal == curr_sep_set_viols + curr_inj_viols + curr_sur_viols

\* an iteration of the loop starts in this state
IterationStarts == sapc = "loop" /\ sa_i < n_iterations

\* the candidate of the iteration that has just been run passes the gate
CandidatePassesGate ==
    cand_sep_set_viols' + cand_sur_viols' + cand_inj_viols' <= CurrTotal

\* the candidate of the iteration that has just been run is the current state
CandidateAccepted ==
    /\ curr' = candidate' /\ curr_eval' = candidate_eval'
    /\ curr_sep_set_viols' = cand_sep_set_viols'
    /\ curr_inj_viols' = cand_inj_viols'
    /\ curr_sur_viols' = cand_sur_viols'

C20_GateOnTotalViolations ==
    [][IterationStarts =>
            /\ curr' # curr => CandidatePassesGate
            /\ CurrTotal' <= CurrTotal
            /\ CandidatePassesGate /\ candidate_eval' <= curr_eval => CandidateAccepted]_vars

-----------------------------------------------------------------------------
(* C21: in every iteration of simulated_annealing the best state is        *)
(* replaced by the candidate exactly when the candidate's objective is <=  *)
(* the best objective and each of its three violation counts is <= the     *)
(* best's corresponding count, whether or not the candidate becomes the    *)
(* current state; a candidate failing one of the four comparisons never    *)
(* replaces the best.                                                      *)

\* the candidate of the iteration that has just been run is no worse than the
\* best state of before in the objective and in each count
CandidateDominatesBest ==
    /\ candidate_eval' <= best_eval
    /\ cand_sep_set_viols' <= best_sep_set_viols
    /\ cand_inj_viols' <= best_inj_viols
    /\ cand_sur_viols' <= best_sur_viols

BestIsCandidate ==
    /\ best' = candidate' /\ best_eval' = candidate_eval'
    /\ best_sep_set_viols' = cand_sep_set_viols'
    /\ best_inj_viols' = cand_inj_viols'
    /\ best_sur_viols' = cand_sur_viols'

BestIsKept ==
    UNCHANGED <<best, best_eval, best_sep_set_viols, best_inj_viols, best_sur_viols>>

C21_BestReplacedExactlyOnDominance ==
    [][IterationStarts =>
            IF CandidateDominatesBest THEN BestIsCandidate ELSE BestIsKept]_vars

\* an iteration has replaced the best state and has not moved the current one
C21_Witness ==
    /\ sapc = "loop"
    /\ sa_i > 0
    /\ best = candidate
    /\ curr # candidate

-----------------------------------------------------------------------------
(* C22: calculate_qubo_nc returns an n x n matrix whose diagonal entries   *)
(* are all -1, whose entry Q[i][j] is 2*(1 - nc(i,j)) for every scored     *)
(* edge key (i,j) and whose every other entry is 0; each undirected edge   *)
(* is written in one direction only, so for a scored key (i,j) the         *)
(* mirrored entry Q[j][i] stays 0.                                         *)

IsZero(r) == r[1] = 0

\* q / 2 + nc = 1
HalfPlusScoreIsOne(q, score) ==
    q[1] * score[2] + 2 * score[1] * q[2] = 2 * q[2] * score[2]

C22_QuboMatrixEntries ==
    qpc = "done" =>
        /\ DOMAIN Q = NodeSet(nNodes)
        /\ \A i \in NodeSet(nNodes) :
              /\ DOMAIN Q[i] = NodeSet(nNodes)
              /\ Q[i][i][1] = 0 - Q[i][i][2]
        /\ \A i, j \in NodeSet(nNodes) :
              /\ <<i, j>> \in DOMAIN estimations =>
                    /\ HalfPlusScoreIsOne(Q[i][j], estimations[<<i, j>>])
                    /\ IsZero(Q[j][i])
              /\ (i # j /\ <<i, j>> \notin DOMAIN estimations) => IsZero(Q[i][j])

C22_Witness ==
    /\ qpc = "done"
    /\ Cardinality(edges) >= 2
    /\ \E key \in DOMAIN estimations :
          /\ ~IsZero(Q[key[1]][key[2]])
          /\ IsZero(Q[key[2]][key[1]])
    /\ \E key \in DOMAIN estimations : key[1] > key[2]

-----------------------------------------------------------------------------
(* C23: neighborhood_connectivity never divides by zero on a layering      *)
(* produced by bfs with d = 2: when no same-layer edge exists at depth 1   *)
(* the score uses the half-depth term alone, when no edge exists at depth  *)
(* 0.5 either the score is the neutral value 0.5, and whenever the depth-1 *)
(* edge set is non-empty the depth-0.5 edge set it also divides by is      *)
(* non-empty.                                                              *)

\* bfs has returned from a call with d = 2
LayeringOfDepthTwo == bfs_d = 2 /\ bpc \in {"returned", "scored", "ZeroDivisionError", "KeyError"}

\* the score when only the edges of depth 0.5 count: with c of them counted
\* as connections, m edges in G and the estimate est2m / (2 m),
\* nc = ((c - est2m / (2 m)) / len(edges_in_layers[0.5]) + 1) / 2
HalfDepthScoreIs(score) ==
    LET m2    == 2 * Cardinality(edges)
        half  == edges_in_layers[1]
        c     == Cardinality(NcEdges(edges_in_layers, sub_tree_root, {bfs_v, bfs_w}, 1))
        est2m == EstimatedTimes2m(edges, bfs_v, bfs_w, edges_in_layers, sub_tree_root,
                                  nodes_in_layers, 1)
        n2    == m2 * Cardinality(half)
    IN  \* score = (m2 * c - est2m + n2) / (2 * n2)
        score[1] * 2 * n2 = (m2 * c - est2m + n2) * score[2]

C23_NoDivisionByZero ==
    LayeringOfDepthTwo =>
        /\ bpc # "ZeroDivisionError"
        /\ Cardinality(edges) > 0
        /\ edges_in_layers[2] # {} => edges_in_layers[1] # {}
        /\ bpc = "scored" =>
              /\ nc[2] # 0
              /\ (edges_in_layers[2] = {} /\ edges_in_layers[1] # {}) => HalfDepthScoreIs(nc)
              /\ (edges_in_layers[2] = {} /\ edges_in_layers[1] = {}) => 2 * nc[1] = nc[2]

C23_Witness ==
    /\ bpc = "scored"
    /\ bfs_d = 2
    /\ edges_in_layers[2] = {}
    /\ edges_in_layers[1] # {}
    /\ 2 * nc[1] # nc[2]

-----------------------------------------------------------------------------
(* C24: in greedy_separation_node_classification, at the moment each       *)
(* assignment is chosen, connection_summary[i][k] equals, for every        *)
(* still-unassigned separator node i and every community k, the number of  *)
(* neighbours of i in the full graph H that are currently members of       *)
(* community k.                                                            *)

C24_SummaryIsCurrentCount ==
    AboutToAssign =>
        \A i \in Range(separation_node_set) : \A k \in DOMAIN communities :
            connection_summary[i][k] = NeighboursInCommunity(i, k)

-----------------------------------------------------------------------------
(* C25: greedy_separation_node_classification returns exactly one          *)
(* community per connected component with at least two nodes of the        *)
(* subgraph induced by the nodes classified 1, indexed from 0; each such    *)
(* component is wholly contained in the community with its index, no two   *)
(* components end up in the same community, and every non-separator node   *)
(* with no non-separator neighbour is treated as a separator and assigned  *)
(* greedily.                                                               *)

\* the nodes the caller classified 1
ClassifiedOne == {i \in NodeSet(nNodes) : classification_at_call[i] = 1}

\* the components with two or more nodes of the subgraph they induce
AnchorComponents ==
    {c \in ConnectedComponents(ClassifiedOne, edges) : Cardinality(c) >= 2}

\* the nodes classified 1 that have no neighbour classified 1
LoneNodes == {i \in ClassifiedOne : Neighbors(edges, i) \cap ClassifiedOne = {}}

\* the number of anchor components whose smallest node is below that of c:
\* the place of c when the components are listed by their first node
IndexOf(c) ==
    Cardinality({b \in AnchorComponents : \E u \in b : \A t \in c : u < t})

C25_OneCommunityPerComponent ==
    gpc = "returned" =>
        /\ DOMAIN communities = 0 .. (Cardinality(AnchorComponents) - 1)
        /\ \A c \in AnchorComponents :
              /\ c \subseteq communities[IndexOf(c)]
              /\ \A b \in AnchorComponents :
                    b # c => \A k \in DOMAIN communities :
                                ~(b \subseteq communities[k] /\ c \subseteq communities[k])
        /\ \A i \in LoneNodes :
              /\ classification[i] = 0
              /\ i \in Range(initial_separation_node_set)
              /\ i \notin Range(separation_node_set)
              /\ \E k \in DOMAIN communities : i \in communities[k]

C25_Witness ==
    /\ gpc = "returned"
    /\ Cardinality(AnchorComponents) = 2
    /\ LoneNodes # {}
    /\ \E c \in AnchorComponents : communities[IndexOf(c)] # c

-----------------------------------------------------------------------------
(* C26: after bfs(G, v, w, d) the root tag of every explored node x at     *)
(* depth k >= 1 is v if all neighbours of x at depth k-1 (the edge (v,w)   *)
(* left out) are tagged v, is w if all of them are tagged w, and is the    *)
(* tag {v,w} of both roots otherwise; v and w are tagged with themselves   *)
(* and unexplored nodes have the tag None.                                 *)

\* the neighbours of u one layer above it in the returned layering
ParentsOf(u) ==
    {p \in NodeSet(nNodes) :
        /\ {p, u} \in edges_at_call \ {{bfs_v, bfs_w}}
        /\ node_layer_depth[p] = node_layer_depth[u] - 1}

C26_RootTagFollowsParents ==
    bpc = "returned" =>
        \A u \in NodeSet(nNodes) :
            IF u \in {bfs_v, bfs_w} THEN sub_tree_root[u] = {u}
            ELSE IF node_layer_depth[u] = -1 THEN sub_tree_root[u] = {}
            ELSE sub_tree_root[u] =
                    IF \A p \in ParentsOf(u) : sub_tree_root[p] = {bfs_v} THEN {bfs_v}
                    ELSE IF \A p \in ParentsOf(u) : sub_tree_root[p] = {bfs_w} THEN {bfs_w}
                    ELSE {bfs_v, bfs_w}

\* a returned layering of depth two with a node whose two parents share the
\* root v, a node whose parents have different tags, and an unexplored node
C26_Witness ==
    /\ bpc = "returned"
    /\ \E u \in NodeSet(nNodes) :
          /\ node_layer_depth[u] = 2
          /\ Cardinality(ParentsOf(u)) >= 2
          /\ sub_tree_root[u] = {bfs_v}
    /\ \E u \in NodeSet(nNodes) :
          /\ node_layer_depth[u] >= 1
          /\ sub_tree_root[u] = {bfs_v, bfs_w}
          /\ \E p \in ParentsOf(u) : sub_tree_root[p] # {bfs_v, bfs_w}
    /\ \E u \in NodeSet(nNodes) : sub_tree_root[u] = {}

-----------------------------------------------------------------------------
(* C27: when simulated_annealing is started without a warm start, the      *)
(* initial state has objective 0 and the violation counts separation-set   *)
(* = 0, injectivity = 0, surjectivity = number of ground-truth             *)
(* communities, and the best state has separation-set violations = 0,      *)
(* injectivity violations = 0 and objective <= 0 from then on, in          *)
(* particular when it is returned, for every iteration count and every     *)
(* sequence of random draws.                                               *)

NoWarmStart == warmstart = <<>> /\ sapc # "call"

AllSeparators == [u \in NodeSet(nNodes) |-> 0]

C27_ColdStartKeepsBestFeasible ==
    NoWarmStart =>
        /\ sa_i = 0 /\ sapc = "loop" =>
              /\ curr = AllSeparators /\ best = AllSeparators
              /\ curr_eval = 0 /\ best_eval = 0
              /\ <<curr_sep_set_viols, curr_inj_viols, curr_sur_viols>>
                    = <<0, 0, Cardinality(GtCommunities(nNodes, block))>>
              /\ <<best_sep_set_viols, best_inj_viols, best_sur_viols>>
                    = <<0, 0, Cardinality(GtCommunities(nNodes, block))>>
        /\ best_sep_set_viols = 0 /\ best_inj_viols = 0 /\ best_eval <= 0
        /\ LET bv == SAViolations[edges, block, best]
           IN  bv[1] = 0 /\ bv[2] = 0 /\ SAObjective[edges, block, best] <= 0

\* a cold-started run that returned a best state other than the initial one
\* after a candidate with a separation-set violation had been drawn
C27_Witness ==
    /\ NoWarmStart
    /\ sapc = "returned"
    /\ n_iterations >= 2
    /\ best # AllSeparators
    /\ best_sur_viols < Cardinality(GtCommunities(nNodes, block))
    /\ cand_sep_set_viols > 0
    /\ candidate # best

-----------------------------------------------------------------------------
(* C28: if H is connected and the non-separator subgraph has at least one  *)
(* component with two or more nodes, then at every step of the assignment  *)
(* loop of greedy_separation_node_classification the chosen node is a      *)
(* still-unassigned separator node with at least one neighbour inside the  *)
(* chosen community, so each step removes exactly one distinct node from   *)
(* the unassigned list and the list is empty when the loop ends.           *)

HIsConnected == Cardinality(ConnectedComponents(NodeSet(nNodes), edges)) = 1

\* an edge of H between two nodes the caller classified 1
HasAnchorComponent ==
    \E e \in edges : \A u \in e : classification_at_call[u] = 1

\* the nodes of initial_separation_node_set assigned so far
AssignedSoFar == Range(initial_separation_node_set) \ Range(separation_node_set)

C28_ChosenNodeIsUnassignedNeighbour ==
    (HIsConnected /\ HasAnchorComponent /\ gpc # "call") =>
        /\ gpc \in {"loop", "returned"}
        /\ Len(separation_node_set) = Len(initial_separation_node_set) - loop_a
        /\ Cardinality(Range(separation_node_set)) = Len(separation_node_set)
        /\ Cardinality(AssignedSoFar) = loop_a
        /\ (gpc = "loop" /\ loop_a < Len(initial_separation_node_set)) =>
              /\ most_certain_node \in Range(separation_node_set)
              /\ most_certain_community \in DOMAIN communities
              /\ Neighbors(edges, most_certain_node)
                    \cap communities[most_certain_community] # {}
        /\ gpc = "returned" => separation_node_set = <<>>

\* a returned call on a connected H that assigned four nodes, one of which
\* had no neighbour classified 1 and so was reached through an earlier
\* assignment
C28_Witness ==
    /\ HIsConnected /\ HasAnchorComponent
    /\ gpc = "returned"
    /\ Len(initial_separation_node_set) = 4
    /\ \E i \in Range(initial_separation_node_set) :
          Neighbors(edges, i) \subseteq Range(initial_separation_node_set)

-----------------------------------------------------------------------------
(* C29: in the layering returned by bfs on a simple graph every undirected *)
(* edge is recorded at most once over all sets of edges_in_layers (never   *)
(* in both orientations and never at two depths), cross-layer edges are    *)
(* stored oriented from the shallower to the deeper node, and every        *)
(* recorded edge (a,b) at key k satisfies k = (depth(a) + depth(b)) / 2 =  *)
(* edge_layer_depth[(a,b)] = edge_layer_depth[(b,a)].  Keys are kept       *)
(* doubled: key 2k stands for the depth k.                                 *)

Reverse(t) == <<t[2], t[1]>>

C29_EdgesRecordedOnceAndOriented ==
    bpc = "returned" =>
        \A key \in DOMAIN edges_in_layers : \A t \in edges_in_layers[key] :
            /\ {t[1], t[2]} \in edges_at_call \ {{bfs_v, bfs_w}}
            /\ Reverse(t) \notin edges_in_layers[key]
            /\ \A other \in DOMAIN edges_in_layers \ {key} :
                  t \notin edges_in_layers[other] /\ Reverse(t) \notin edges_in_layers[other]
            /\ node_layer_depth[t[1]] >= 0
            /\ node_layer_depth[t[1]] <= node_layer_depth[t[2]]
            /\ node_layer_depth[t[1]] + node_layer_depth[t[2]] = key
            /\ edge_layer_depth[t] = key
            /\ edge_layer_depth[Reverse(t)] = key

\* a returned layering with a cross-layer edge stored from the larger to the
\* smaller node id, a same-layer edge, and a cross-layer edge into a node
\* that has two neighbours one layer up
C29_Witness ==
    /\ bpc = "returned"
    /\ \E key \in DOMAIN edges_in_layers : \E t \in edges_in_layers[key] :
          key % 2 = 1 /\ t[1] > t[2]
    /\ \E key \in DOMAIN edges_in_layers : key % 2 = 0 /\ edges_in_layers[key] # {}
    /\ \E key \in DOMAIN edges_in_layers : \E t \in edges_in_layers[key] :
          \E r \in edges_in_layers[key] : r # t /\ r[2] = t[2] /\ key % 2 = 1

-----------------------------------------------------------------------------
(* C30: greedy_separation_node_classification leaves the graph H unchanged *)
(* (same nodes and edges), and changes the caller's classification mapping *)
(* only on nodes that were classified 1 and have no neighbour classified   *)
(* 1, which it sets to 0; every other entry of the classification keeps    *)
(* its value.                                                              *)

\* the nodes the caller classified 1 that have no neighbour classified 1
LoneAtCall ==
    {i \in NodeSet(nNodes) :
        /\ classification_at_call[i] = 1
        /\ \A j \in Neighbors(H_at_call, i) : classification_at_call[j] # 1}

C30_OnlyLoneNodesReclassified ==
    gpc \notin {"idle", "call"} =>
        /\ edges = H_at_call
        /\ DOMAIN classification = NodeSet(nNodes)
        /\ \A i \in NodeSet(nNodes) :
              classification[i] = IF i \in LoneAtCall THEN 0 ELSE classification_at_call[i]

\* a returned call on a graph in which a node classified 1 had only
\* neighbours classified 0 and was set to 0, while a node classified 1 with
\* a neighbour classified 1 and a node classified 0 kept their values
C30_Witness ==
    /\ gpc = "returned"
    /\ \E i \in LoneAtCall : Neighbors(edges, i) # {} /\ classification[i] = 0
    /\ \E i \in NodeSet(nNodes) : classification_at_call[i] = 1 /\ classification[i] = 1
    /\ \E i \in NodeSet(nNodes) : classification_at_call[i] = 0 /\ classification[i] = 0

====
